---- MODULE Spec2Model ----
(***************************************************************************)
(* A model of the accumulator market-making engine: the per-side order     *)
(* state machine, the quote scheduler, the risk engine, the strategies,    *)
(* the Kraken execution venue and the event loop of main.rs.               *)
(*                                                                         *)
(* Units.  Instants and durations are milliseconds.  Prices are integers   *)
(* in units of half a price tick (price_tick = 2), so that a top of book   *)
(* may sit off the tick grid.  Quantities are integers in units of 1e-12   *)
(* base units (the epsilon of is_stale), quantity_step being 2 of them.    *)
(* Option<T> is the sequence <<>> (None) or <<x>> (Some(x)).               *)
(***************************************************************************)
EXTENDS Integers, Sequences, FiniteSets, TLC

(***************************************************************************)
(* Option helpers and arithmetic                                           *)
(***************************************************************************)
None == <<>>
Some(x) == <<x>>
IsSome(o) == o # <<>>
Get(o) == o[1]

Abs(x) == IF x < 0 THEN -x ELSE x
Min(a, b) == IF a < b THEN a ELSE b
Max(a, b) == IF a > b THEN a ELSE b

\* floor(a / b) for b > 0 and any integer a
FloorDiv(a, b) == a \div b

\* Instant::duration_since saturates at zero
duration_since(later, earlier) == IF later >= earlier THEN later - earlier ELSE 0

Sides == {"Buy", "Sell"}

(***************************************************************************)
(* Trading rules (types/trading_rules.rs); the values come from            *)
(* trading_rules.yml and are fixed here for one instrument.                *)
(***************************************************************************)
price_tick == 2
quantity_step == 2
min_half_spread == 0
\* notionals and exposures are in price units times quantity units
max_order_notional == 100
max_exposure_in_quote == 100

\* Real-valued intermediate results are exact rationals [num, den], den > 0.
Rat(n, d) == [num |-> n, den |-> d]
RatLt(a, b) == a.num * b.den < b.num * a.den
RatLe(a, b) == a.num * b.den <= b.num * a.den
RatMin(a, b) == IF RatLt(a, b) THEN a ELSE b
RatMax(a, b) == IF RatLt(b, a) THEN a ELSE b

\* (value / step).floor() * step of the rational value; the result is an integer
round_down_to_step(value, step) ==
    FloorDiv(value.num, value.den * step) * step

round_price_to_tick(price) == round_down_to_step(price, price_tick)

round_quantity_to_step(quantity_base) == round_down_to_step(quantity_base, quantity_step)

\* the f64 values that are not finite, as rationals without a denominator
PosInf == Rat(1, 0)
NegInf == Rat(-1, 0)
NaN == Rat(0, 0)
is_finite(x) == x.den # 0

\* quantity_from_notional rounding to the nearest multiple of the step
quantity_from_notional_nearest(step, notional, price_per_base) ==
    IF ~is_finite(price_per_base) \/ price_per_base.num <= 0 THEN 0
    ELSE round_down_to_step(Rat(2 * notional * price_per_base.den
                                  + step * price_per_base.num,
                                2 * price_per_base.num), step)

\* TradingRules::quantity_from_notional of rules whose quantity_step is step;
\* notional is in (price unit * quantity unit), price_per_base is a rational
\* or not finite
quantity_from_notional_of(step, notional, price_per_base) ==
    IF ~is_finite(price_per_base) \/ price_per_base.num <= 0 THEN 0
    ELSE round_down_to_step(Rat(notional * price_per_base.den, price_per_base.num),
                            step)

\* the rules of the instrument
quantity_from_notional(notional, price_per_base) ==
    quantity_from_notional_of(quantity_step, notional, price_per_base)

(***************************************************************************)
(* Quotes, per-side states, plans, actions and reports                     *)
(***************************************************************************)
Quote(p, q) == [price |-> p, quantity |-> q]

NoOrder == [kind |-> "NoOrder"]
Placing(id, requested) == [kind |-> "Placing", order_id |-> id, requested |-> requested]
Live(id, resting) == [kind |-> "Live", order_id |-> id, resting |-> resting]
Cancelling(id, resting) == [kind |-> "Cancelling", order_id |-> id, resting |-> resting]

PlanNoAction == [plan |-> "NoAction"]
PlanWaitForVenue == [plan |-> "WaitForVenue"]
PlanPlace(id, desired) == [plan |-> "Place", order_id |-> id, desired |-> desired]
PlanCancel(id) == [plan |-> "Cancel", order_id |-> id]
PlanReplace(old, new, desired) ==
    [plan |-> "Replace", old_order_id |-> old, new_order_id |-> new, desired |-> desired]

ActCancelAll == [action |-> "CancelAll"]
ActCancel(id, side) == [action |-> "Cancel", order_id |-> id, side |-> side]
ActPlace(id, side, price, quantity) ==
    [action |-> "Place", order_id |-> id, side |-> side, price |-> price,
     quantity |-> quantity, order_type |-> "PostOnlyLimit"]

\* OrderReport: every variant carries the same fields here; variants without
\* a price or quantity carry 0, CancelledAll and VenueError carry no order.
Report(type, id, side, price, quantity) ==
    [type |-> type, order_id |-> id, side |-> side, price |-> price, quantity |-> quantity]
RepCancelledAll == Report("CancelledAll", 0, "-", 0, 0)
RepVenueError == Report("VenueError", 0, "-", 0, 0)

(***************************************************************************)
(* OrderSideManager (execution/order_side_manager.rs)                      *)
(***************************************************************************)
replace_threshold_ticks == 3
min_lifetime == 500

for_side(side) == [side |-> side, state |-> NoOrder, last_update |-> None]

side_has_inflight_actions(m) == m.state.kind \in {"Placing", "Cancelling"}

matches_current_order(m, order_id) ==
    /\ m.state.kind \in {"Placing", "Live", "Cancelling"}
    /\ m.state.order_id = order_id

\* on_report(report) at instant t (= Instant::now() inside the handler)
on_report_mismatch_clears(m, report, t) ==
    IF report.side # m.side THEN m
    ELSE CASE report.type = "Placed" ->
                [m EXCEPT !.state = Placing(report.order_id,
                                            Quote(report.price, report.quantity))]
           [] report.type = "Accepted" ->
                [m EXCEPT !.state = Live(report.order_id,
                                         Quote(report.price, report.quantity)),
                          !.last_update = Some(t)]
           [] report.type \in {"Rejected", "Cancelled", "Filled"} ->
                IF m.state.kind # "NoOrder"
                THEN [m EXCEPT !.state = NoOrder, !.last_update = None]
                ELSE m
           [] report.type = "Cancel" ->
                IF m.state.kind = "Live" /\ report.order_id = m.state.order_id
                THEN [m EXCEPT !.state = Cancelling(report.order_id, m.state.resting)]
                ELSE m
           [] report.type = "PartiallyFilled" ->
                IF m.state.kind = "Live" /\ report.order_id = m.state.order_id
                THEN [m EXCEPT !.state = Live(m.state.order_id,
                                   Quote(m.state.resting.price,
                                         Max(m.state.resting.quantity - report.quantity, 0))),
                               !.last_update = Some(t)]
                ELSE m
           [] OTHER -> m

on_report_keeps_last_update(m, report, t) ==
    IF report.side # m.side THEN m
    ELSE CASE report.type = "Placed" ->
                [m EXCEPT !.state = Placing(report.order_id,
                                            Quote(report.price, report.quantity))]
           [] report.type = "Accepted" ->
                [m EXCEPT !.state = Live(report.order_id,
                                         Quote(report.price, report.quantity)),
                          !.last_update = Some(t)]
           [] report.type \in {"Rejected", "Cancelled", "Filled"} ->
                IF matches_current_order(m, report.order_id)
                THEN [m EXCEPT !.state = NoOrder]
                ELSE m
           [] report.type = "Cancel" ->
                IF m.state.kind = "Live" /\ report.order_id = m.state.order_id
                THEN [m EXCEPT !.state = Cancelling(report.order_id, m.state.resting)]
                ELSE m
           [] report.type = "PartiallyFilled" ->
                IF m.state.kind = "Live" /\ report.order_id = m.state.order_id
                THEN [m EXCEPT !.state = Live(m.state.order_id,
                                   Quote(m.state.resting.price,
                                         Max(m.state.resting.quantity - report.quantity, 0))),
                               !.last_update = Some(t)]
                ELSE m
           [] OTHER -> m

\* on_report that applies a partial fill to the Live order whatever its id
on_report_partial_fill_any_id(m, report, t) ==
    IF report.side # m.side THEN m
    ELSE CASE report.type = "Placed" ->
                [m EXCEPT !.state = Placing(report.order_id,
                                            Quote(report.price, report.quantity))]
           [] report.type = "Accepted" ->
                [m EXCEPT !.state = Live(report.order_id,
                                         Quote(report.price, report.quantity)),
                          !.last_update = Some(t)]
           [] report.type \in {"Rejected", "Cancelled", "Filled"} ->
                IF matches_current_order(m, report.order_id)
                THEN [m EXCEPT !.state = NoOrder, !.last_update = None]
                ELSE m
           [] report.type = "Cancel" ->
                IF m.state.kind = "Live" /\ report.order_id = m.state.order_id
                THEN [m EXCEPT !.state = Cancelling(report.order_id, m.state.resting)]
                ELSE m
           [] report.type = "PartiallyFilled" ->
                IF m.state.kind = "Live"
                THEN [m EXCEPT !.state = Live(m.state.order_id,
                                   Quote(m.state.resting.price,
                                         Max(m.state.resting.quantity - report.quantity, 0))),
                               !.last_update = Some(t)]
                ELSE m
           [] OTHER -> m

\* on_report that does not stamp last_update when an order is accepted
on_report_accepted_keeps_time(m, report, t) ==
    IF report.side # m.side THEN m
    ELSE CASE report.type = "Placed" ->
                [m EXCEPT !.state = Placing(report.order_id,
                                            Quote(report.price, report.quantity))]
           [] report.type = "Accepted" ->
                [m EXCEPT !.state = Live(report.order_id,
                                         Quote(report.price, report.quantity))]
           [] report.type = "Rejected" ->
                IF matches_current_order(m, report.order_id)
                THEN [m EXCEPT !.state = NoOrder, !.last_update = None]
                ELSE m
           [] report.type = "Cancel" ->
                IF m.state.kind = "Live" /\ report.order_id = m.state.order_id
                THEN [m EXCEPT !.state = Cancelling(report.order_id, m.state.resting)]
                ELSE m
           [] report.type = "Cancelled" ->
                IF matches_current_order(m, report.order_id)
                THEN [m EXCEPT !.state = NoOrder, !.last_update = None]
                ELSE m
           [] report.type = "PartiallyFilled" ->
                IF m.state.kind = "Live" /\ report.order_id = m.state.order_id
                THEN [m EXCEPT !.state = Live(m.state.order_id,
                                   Quote(m.state.resting.price,
                                         Max(m.state.resting.quantity - report.quantity, 0))),
                               !.last_update = Some(t)]
                ELSE m
           [] report.type = "Filled" ->
                IF matches_current_order(m, report.order_id)
                THEN [m EXCEPT !.state = NoOrder, !.last_update = None]
                ELSE m
           [] OTHER -> m

side_on_report(m, report, t) ==
    IF report.side # m.side THEN m
    ELSE CASE report.type = "Placed" ->
                [m EXCEPT !.state = Placing(report.order_id,
                                            Quote(report.price, report.quantity))]
           [] report.type = "Accepted" ->
                [m EXCEPT !.state = Live(report.order_id,
                                         Quote(report.price, report.quantity)),
                          !.last_update = Some(t)]
           [] report.type = "Rejected" ->
                IF matches_current_order(m, report.order_id)
                THEN [m EXCEPT !.state = NoOrder, !.last_update = None]
                ELSE m
           [] report.type = "Cancel" ->
                IF m.state.kind = "Live" /\ report.order_id = m.state.order_id
                THEN [m EXCEPT !.state = Cancelling(report.order_id, m.state.resting)]
                ELSE m
           [] report.type = "Cancelled" ->
                IF matches_current_order(m, report.order_id)
                THEN [m EXCEPT !.state = NoOrder, !.last_update = None]
                ELSE m
           [] report.type = "PartiallyFilled" ->
                IF m.state.kind = "Live" /\ report.order_id = m.state.order_id
                THEN [m EXCEPT !.state = Live(m.state.order_id,
                                   Quote(m.state.resting.price,
                                         Max(m.state.resting.quantity - report.quantity, 0))),
                               !.last_update = Some(t)]
                ELSE m
           [] report.type = "Filled" ->
                IF matches_current_order(m, report.order_id)
                THEN [m EXCEPT !.state = NoOrder, !.last_update = None]
                ELSE m
           [] OTHER -> m

\* (price / tick).round() as i64, for non-negative prices (round half up)
price_to_ticks(price, tick) ==
    IF tick <= 0 THEN 0 ELSE FloorDiv(2 * price + tick, 2 * tick)

\* the quantity epsilon 1e-12 is one quantity unit
quantity_epsilon == 1

\* is_stale without the min_lifetime guard
is_stale_no_lifetime(m, current, desired, now, tick) ==
    LET diff_ticks == Abs(price_to_ticks(current.price, tick)
                          - price_to_ticks(desired.price, tick))
        quantity_changed == Abs(current.quantity - desired.quantity) > quantity_epsilon
    IN  quantity_changed \/ diff_ticks >= replace_threshold_ticks

\* is_stale with the guard still closed at min_lifetime itself
is_stale_lifetime_inclusive(m, current, desired, now, tick) ==
    IF IsSome(m.last_update) /\ duration_since(now, Get(m.last_update)) <= min_lifetime
    THEN FALSE
    ELSE LET diff_ticks == Abs(price_to_ticks(current.price, tick)
                               - price_to_ticks(desired.price, tick))
             quantity_changed == Abs(current.quantity - desired.quantity) > quantity_epsilon
         IN  quantity_changed \/ diff_ticks >= replace_threshold_ticks

\* is_stale with a threshold the price difference must exceed
is_stale_threshold_strict(m, current, desired, now, tick) ==
    IF IsSome(m.last_update) /\ duration_since(now, Get(m.last_update)) < min_lifetime
    THEN FALSE
    ELSE LET diff_ticks == Abs(price_to_ticks(current.price, tick)
                               - price_to_ticks(desired.price, tick))
             quantity_changed == Abs(current.quantity - desired.quantity) > quantity_epsilon
         IN  quantity_changed \/ diff_ticks > replace_threshold_ticks

is_stale(m, current, desired, now, tick) ==
    IF IsSome(m.last_update) /\ duration_since(now, Get(m.last_update)) < min_lifetime
    THEN FALSE
    ELSE LET diff_ticks == Abs(price_to_ticks(current.price, tick)
                               - price_to_ticks(desired.price, tick))
             quantity_changed == Abs(current.quantity - desired.quantity) > quantity_epsilon
         IN  quantity_changed \/ diff_ticks >= replace_threshold_ticks

\* plan that leaves a Live order alone when the target has no quote
plan_keeps_live_without_target(m, inputs) ==
    CASE m.state.kind = "NoOrder" ->
            IF IsSome(inputs.target)
            THEN PlanPlace(inputs.new_id, Get(inputs.target))
            ELSE PlanNoAction
      [] m.state.kind \in {"Placing", "Cancelling"} -> PlanWaitForVenue
      [] m.state.kind = "Live" ->
            IF ~IsSome(inputs.target)
            THEN PlanNoAction
            ELSE IF is_stale(m, m.state.resting, Get(inputs.target),
                             inputs.now, inputs.price_tick)
                 THEN PlanReplace(m.state.order_id, inputs.new_id, Get(inputs.target))
                 ELSE PlanNoAction

\* inputs: [now, price_tick, target (Option<Quote>), new_id (the fresh uuid)]
plan(m, inputs) ==
    CASE m.state.kind = "NoOrder" ->
            IF IsSome(inputs.target)
            THEN PlanPlace(inputs.new_id, Get(inputs.target))
            ELSE PlanNoAction
      [] m.state.kind \in {"Placing", "Cancelling"} -> PlanWaitForVenue
      [] m.state.kind = "Live" ->
            IF ~IsSome(inputs.target)
            THEN PlanCancel(m.state.order_id)
            ELSE IF is_stale(m, m.state.resting, Get(inputs.target),
                             inputs.now, inputs.price_tick)
                 THEN PlanReplace(m.state.order_id, inputs.new_id, Get(inputs.target))
                 ELSE PlanNoAction

place_action(m, order_id, desired) ==
    ActPlace(order_id, m.side, desired.price, desired.quantity)

cancel_action(m, order_id) == ActCancel(order_id, m.side)

get_actions_place_first(m, p) ==
    CASE p.plan = "Place" -> <<place_action(m, p.order_id, p.desired)>>
      [] p.plan = "Cancel" -> <<cancel_action(m, p.order_id)>>
      [] p.plan = "Replace" -> <<place_action(m, p.new_order_id, p.desired),
                                 cancel_action(m, p.old_order_id)>>
      [] OTHER -> <<>>

get_actions(m, p) ==
    CASE p.plan = "Place" -> <<place_action(m, p.order_id, p.desired)>>
      [] p.plan = "Cancel" -> <<cancel_action(m, p.order_id)>>
      [] p.plan = "Replace" -> <<cancel_action(m, p.old_order_id),
                                 place_action(m, p.new_order_id, p.desired)>>
      [] OTHER -> <<>>

\* apply_optimistic that waits for the cancel of the old order on a Replace
apply_optimistic_replace_cancels(m, decision, now) ==
    CASE decision.plan \in {"NoAction", "WaitForVenue"} -> m
      [] decision.plan = "Place" /\ m.state.kind = "NoOrder" ->
            [m EXCEPT !.state = Placing(decision.order_id, decision.desired),
                      !.last_update = Some(now)]
      [] decision.plan = "Cancel" /\ m.state.kind = "Live" ->
            [m EXCEPT !.state = Cancelling(decision.order_id, m.state.resting),
                      !.last_update = Some(now)]
      [] decision.plan = "Replace" /\ m.state.kind = "Live" ->
            [m EXCEPT !.state = Cancelling(decision.old_order_id, m.state.resting),
                      !.last_update = Some(now)]
      [] OTHER -> m

\* apply_optimistic that does not stamp last_update on a Cancel
apply_optimistic_cancel_keeps_time(m, decision, now) ==
    CASE decision.plan \in {"NoAction", "WaitForVenue"} -> m
      [] decision.plan = "Place" /\ m.state.kind = "NoOrder" ->
            [m EXCEPT !.state = Placing(decision.order_id, decision.desired),
                      !.last_update = Some(now)]
      [] decision.plan = "Cancel" /\ m.state.kind = "Live" ->
            [m EXCEPT !.state = Cancelling(decision.order_id, m.state.resting)]
      [] decision.plan = "Replace" ->
            [m EXCEPT !.state = Placing(decision.new_order_id, decision.desired),
                      !.last_update = Some(now)]
      [] OTHER -> m

\* apply_optimistic that stamps last_update while it waits for the venue
apply_optimistic_wait_stamps(m, decision, now) ==
    CASE decision.plan = "NoAction" -> m
      [] decision.plan = "WaitForVenue" -> [m EXCEPT !.last_update = Some(now)]
      [] decision.plan = "Place" /\ m.state.kind = "NoOrder" ->
            [m EXCEPT !.state = Placing(decision.order_id, decision.desired),
                      !.last_update = Some(now)]
      [] decision.plan = "Cancel" /\ m.state.kind = "Live" ->
            [m EXCEPT !.state = Cancelling(decision.order_id, m.state.resting),
                      !.last_update = Some(now)]
      [] decision.plan = "Replace" ->
            [m EXCEPT !.state = Placing(decision.new_order_id, decision.desired),
                      !.last_update = Some(now)]
      [] OTHER -> m

apply_optimistic(m, decision, now) ==
    CASE decision.plan \in {"NoAction", "WaitForVenue"} -> m
      [] decision.plan = "Place" /\ m.state.kind = "NoOrder" ->
            [m EXCEPT !.state = Placing(decision.order_id, decision.desired),
                      !.last_update = Some(now)]
      [] decision.plan = "Cancel" /\ m.state.kind = "Live" ->
            [m EXCEPT !.state = Cancelling(decision.order_id, m.state.resting),
                      !.last_update = Some(now)]
      [] decision.plan = "Replace" ->
            [m EXCEPT !.state = Placing(decision.new_order_id, decision.desired),
                      !.last_update = Some(now)]
      [] OTHER -> m

\* returns the manager after the call, the plan and the actions
side_actions_for_target(m, inputs) ==
    LET p == plan(m, inputs)
    IN  [mgr |-> apply_optimistic(m, p, inputs.now),
         plan |-> p,
         actions |-> get_actions(m, p)]

SideInputs(now, tick, target, new_id) ==
    [now |-> now, price_tick |-> tick, target |-> target, new_id |-> new_id]

(***************************************************************************)
(* OrderManager (execution/order_manager.rs)                               *)
(***************************************************************************)
OrderManagerDefault == [bid_side |-> for_side("Buy"), ask_side |-> for_side("Sell")]

\* on_report whose sides do not look at the side of the report
on_report_ignores_side(om, report, t) ==
    [bid_side |-> side_on_report(om.bid_side, [report EXCEPT !.side = "Buy"], t),
     ask_side |-> side_on_report(om.ask_side, [report EXCEPT !.side = "Sell"], t)]

on_report(om, report, t) ==
    [bid_side |-> side_on_report(om.bid_side, report, t),
     ask_side |-> side_on_report(om.ask_side, report, t)]

has_live_orders(om) ==
    om.bid_side.state.kind = "Live" \/ om.ask_side.state.kind = "Live"

has_inflight_actions(om) ==
    side_has_inflight_actions(om.bid_side) \/ side_has_inflight_actions(om.ask_side)

\* target: [bid, ask] of Option<Quote>; ids: the two uuids the sides may draw
actions_for_target(om, target, now, bid_id, ask_id) ==
    LET b == side_actions_for_target(om.bid_side,
                 SideInputs(now, price_tick, target.bid, bid_id))
        a == side_actions_for_target(om.ask_side,
                 SideInputs(now, price_tick, target.ask, ask_id))
    IN  [om |-> [bid_side |-> b.mgr, ask_side |-> a.mgr],
         plans |-> [bid |-> b.plan, ask |-> a.plan],
         actions |-> b.actions \o a.actions]

(***************************************************************************)
(* MarketState (market/market_state.rs)                                    *)
(***************************************************************************)
MarketStateNew ==
    [best_bid |-> None, best_ask |-> None, last_trade_price |-> None,
     last_event_instant |-> None]

EvTopOfBook(bid, ask) == [type |-> "TopOfBook", best_bid |-> bid, best_ask |-> ask]
EvTrade(price) == [type |-> "Trade", price |-> price]

on_market_event(ms, event, t) ==
    IF event.type = "TopOfBook"
    THEN [ms EXCEPT !.last_event_instant = Some(t),
                    !.best_bid = Some(event.best_bid),
                    !.best_ask = Some(event.best_ask)]
    ELSE [ms EXCEPT !.last_event_instant = Some(t),
                    !.last_trade_price = Some(event.price)]

\* the mid price, doubled: (bid + ask) / 2 is carried as bid + ask
mid_price2(ms) ==
    IF IsSome(ms.best_bid) /\ IsSome(ms.best_ask)
    THEN Some(Get(ms.best_bid) + Get(ms.best_ask))
    ELSE None

spread(ms) ==
    IF IsSome(ms.best_bid) /\ IsSome(ms.best_ask)
    THEN Some(Get(ms.best_ask) - Get(ms.best_bid))
    ELSE None

\* is_stale(max_age) read at instant t: last.elapsed() > max_age
market_is_stale(ms, max_age, t) ==
    IF IsSome(ms.last_event_instant)
    THEN duration_since(t, Get(ms.last_event_instant)) > max_age
    ELSE TRUE

(***************************************************************************)
(* Ema and SignalState (signals/ema.rs, signals/signal_state.rs).  EMA     *)
(* values are doubled prices, like mid_price2.  alpha = 1 - exp(-dt/tau)   *)
(* is taken as dt / (tau + dt), which is 0 at dt = 0, below 1, and         *)
(* increasing in dt; the product alpha * (sample - previous) is truncated. *)
(***************************************************************************)
EmaNew(tau_ms) ==
    [tau |-> tau_ms, value |-> None, last_update |-> None, first_update |-> None]

TruncDiv(a, b) == IF a >= 0 THEN a \div b ELSE -((-a) \div b)

ema_update(e, now, sample) ==
    LET first == IF IsSome(e.first_update) THEN e.first_update ELSE Some(now)
    IN  IF IsSome(e.value) /\ IsSome(e.last_update)
        THEN LET dt == duration_since(now, Get(e.last_update))
                 previous == Get(e.value)
                 updated == previous + TruncDiv(dt * (sample - previous), e.tau + dt)
             IN  [e EXCEPT !.value = Some(updated), !.last_update = Some(now),
                           !.first_update = first]
        ELSE [e EXCEPT !.value = Some(sample), !.last_update = Some(now),
                       !.first_update = first]

signal_min_update_interval == 350

SignalStateNew(fast_tau, slow_tau, vol_tau) ==
    [ema_mid |-> EmaNew(fast_tau), ema_mid_slow |-> EmaNew(slow_tau),
     ema_abs_mid_change |-> EmaNew(vol_tau),
     last_ema_value |-> None, last_ema_slow_value |-> None,
     last_volatility |-> None, last_mid |-> None, last_update |-> None]

\* update that throttles on the distance between now and the last update,
\* so that a clock far enough in the past is let through
signal_update_unclamped(s, ms, now) ==
    IF IsSome(s.last_update)
       /\ Abs(now - Get(s.last_update)) < signal_min_update_interval
    THEN s
    ELSE IF ~IsSome(mid_price2(ms)) THEN s
    ELSE LET mid_value == Get(mid_price2(ms))
             vol == IF IsSome(s.last_mid)
                    THEN ema_update(s.ema_abs_mid_change, now,
                                    Abs(mid_value - Get(s.last_mid)))
                    ELSE s.ema_abs_mid_change
             fast == ema_update(s.ema_mid, now, mid_value)
             slow == ema_update(s.ema_mid_slow, now, mid_value)
         IN  [ema_mid |-> fast, ema_mid_slow |-> slow, ema_abs_mid_change |-> vol,
              last_ema_value |-> fast.value, last_ema_slow_value |-> slow.value,
              last_volatility |-> IF IsSome(s.last_mid) THEN vol.value
                                  ELSE s.last_volatility,
              last_mid |-> Some(mid_value), last_update |-> Some(now)]

signal_update(s, ms, now) ==
    IF IsSome(s.last_update)
       /\ duration_since(now, Get(s.last_update)) < signal_min_update_interval
    THEN s
    ELSE IF ~IsSome(mid_price2(ms)) THEN s
    ELSE LET mid_value == Get(mid_price2(ms))
             vol == IF IsSome(s.last_mid)
                    THEN ema_update(s.ema_abs_mid_change, now,
                                    Abs(mid_value - Get(s.last_mid)))
                    ELSE s.ema_abs_mid_change
             fast == ema_update(s.ema_mid, now, mid_value)
             slow == ema_update(s.ema_mid_slow, now, mid_value)
         IN  [ema_mid |-> fast, ema_mid_slow |-> slow, ema_abs_mid_change |-> vol,
              last_ema_value |-> fast.value, last_ema_slow_value |-> slow.value,
              last_volatility |-> IF IsSome(s.last_mid) THEN vol.value
                                  ELSE s.last_volatility,
              last_mid |-> Some(mid_value), last_update |-> Some(now)]

ema_mid(s) == s.last_ema_value
ema_mid_slow(s) == s.last_ema_slow_value

(***************************************************************************)
(* Quote scheduler (scheduling/quote_scheduler.rs, scheduling/policies)    *)
(* ScheduleContext: [now, market_state, order_manager]; wall is the        *)
(* reading of Utc::now(): [hour, weekday].                                 *)
(***************************************************************************)
Evaluate == [decision |-> "Evaluate"]
Skip(reason) == [decision |-> "Skip", reason |-> reason]

ScheduleContext(now, ms, manager) ==
    [now |-> now, market_state |-> ms, order_manager |-> manager]

\* TradingHours::default(); trading_rules.yml may override it
TradingHoursDefault == [start_hour |-> 8, end_hour |-> 20, weekend_pause |-> FALSE]

tob_min_ticks == 1
tob_max_stale == 1000
min_interval == 200

SchedulerNew(trading_hours) ==
    [tob |-> [last_best |-> None, last_eval |-> None],
     trading_hours |-> trading_hours,
     last_order |-> None]

InFlightPolicy_never(st, ctx, wall) == [st |-> st, reason |-> None]

InFlightPolicy(st, ctx, wall) ==
    [st |-> st,
     reason |-> IF has_inflight_actions(ctx.order_manager) THEN Some("InFlight") ELSE None]

\* TopOfBookTickMovePolicy that still skips when max_stale has just elapsed
TopOfBookTickMovePolicy_stale_exclusive(st, ctx, wall) ==
    LET ms == ctx.market_state
    IN  IF ~(IsSome(ms.best_bid) /\ IsSome(ms.best_ask))
        THEN [st |-> st, reason |-> Some("NoBook")]
        ELSE
          LET best_bid == Get(ms.best_bid)
              best_ask == Get(ms.best_ask)
              min_move == tob_min_ticks * price_tick
              moved == IF IsSome(st.tob.last_best)
                       THEN \/ Abs(best_bid - Get(st.tob.last_best)[1]) >= min_move
                            \/ Abs(best_ask - Get(st.tob.last_best)[2]) >= min_move
                       ELSE TRUE
          IN  IF moved
              THEN [st |-> [st EXCEPT !.tob = [last_best |-> Some(<<best_bid, best_ask>>),
                                               last_eval |-> Some(ctx.now)]],
                    reason |-> None]
              ELSE IF IsSome(st.tob.last_eval)
                      /\ duration_since(ctx.now, Get(st.tob.last_eval)) <= tob_max_stale
                   THEN [st |-> st, reason |-> Some("NoMeaningfulChange")]
                   ELSE [st |-> [st EXCEPT !.tob.last_eval = Some(ctx.now)],
                         reason |-> None]

TopOfBookTickMovePolicy(st, ctx, wall) ==
    LET ms == ctx.market_state
    IN  IF ~(IsSome(ms.best_bid) /\ IsSome(ms.best_ask))
        THEN [st |-> st, reason |-> Some("NoBook")]
        ELSE
          LET best_bid == Get(ms.best_bid)
              best_ask == Get(ms.best_ask)
              min_move == tob_min_ticks * price_tick
              moved == IF IsSome(st.tob.last_best)
                       THEN \/ Abs(best_bid - Get(st.tob.last_best)[1]) >= min_move
                            \/ Abs(best_ask - Get(st.tob.last_best)[2]) >= min_move
                       ELSE TRUE
          IN  IF moved
              THEN [st |-> [st EXCEPT !.tob = [last_best |-> Some(<<best_bid, best_ask>>),
                                               last_eval |-> Some(ctx.now)]],
                    reason |-> None]
              ELSE IF IsSome(st.tob.last_eval)
                      /\ duration_since(ctx.now, Get(st.tob.last_eval)) < tob_max_stale
                   THEN [st |-> st, reason |-> Some("NoMeaningfulChange")]
                   ELSE [st |-> [st EXCEPT !.tob.last_eval = Some(ctx.now)],
                         reason |-> None]

is_within_hours_end_inclusive(th, hour) ==
    IF th.start_hour <= th.end_hour
    THEN hour >= th.start_hour /\ hour <= th.end_hour
    ELSE hour >= th.start_hour \/ hour <= th.end_hour

is_within_hours(th, hour) ==
    IF th.start_hour <= th.end_hour
    THEN hour >= th.start_hour /\ hour < th.end_hour
    ELSE hour >= th.start_hour \/ hour < th.end_hour

TradingHoursPolicy(st, ctx, wall) ==
    [st |-> st,
     reason |-> IF st.trading_hours.weekend_pause /\ wall.weekday \in {"Sat", "Sun"}
                THEN Some("WeekendPause")
                ELSE IF ~is_within_hours(st.trading_hours, wall.hour)
                     THEN Some("OutOfTradingHours")
                     ELSE None]

MinIntervalPolicy_inclusive(st, ctx, wall) ==
    [st |-> st,
     reason |-> IF IsSome(st.last_order)
                   /\ duration_since(ctx.now, Get(st.last_order)) <= min_interval
                THEN Some("TooSoon")
                ELSE None]

MinIntervalPolicy(st, ctx, wall) ==
    [st |-> st,
     reason |-> IF IsSome(st.last_order)
                   /\ duration_since(ctx.now, Get(st.last_order)) < min_interval
                THEN Some("TooSoon")
                ELSE None]

\* the report-listener task of MinIntervalPolicy::on_report, at instant t
min_interval_on_report(st, report, t) ==
    IF report.type = "Placed" THEN [st EXCEPT !.last_order = Some(t)] ELSE st

should_evaluate(policy, st, ctx, wall) ==
    CASE policy = "InFlight" -> InFlightPolicy(st, ctx, wall)
      [] policy = "TopOfBookTickMove" -> TopOfBookTickMovePolicy(st, ctx, wall)
      [] policy = "TradingHours" -> TradingHoursPolicy(st, ctx, wall)
      [] policy = "MinInterval" -> MinIntervalPolicy(st, ctx, wall)

\* the policy list main.rs builds
MainPolicies_inflight_last == <<"TopOfBookTickMove", "TradingHours", "MinInterval", "InFlight">>

MainPolicies == <<"InFlight", "TopOfBookTickMove", "TradingHours", "MinInterval">>

RECURSIVE decide_from(_, _, _, _, _)
decide_from(policies, i, st, ctx, wall) ==
    IF i > Len(policies) THEN [st |-> st, decision |-> Evaluate]
    ELSE LET r == should_evaluate(policies[i], st, ctx, wall)
         IN  IF IsSome(r.reason)
             THEN [st |-> r.st, decision |-> Skip(Get(r.reason))]
             ELSE decide_from(policies, i + 1, r.st, ctx, wall)

\* decide that invokes every policy of the list and returns the first reason
decide_invokes_every_policy(policies, st, ctx, wall) ==
    LET d == decide_from(policies, 1, st, ctx, wall)
    IN  [st |-> IF \E i \in 1..Len(policies) : policies[i] = "TopOfBookTickMove"
                THEN TopOfBookTickMovePolicy(st, ctx, wall).st
                ELSE d.st,
         decision |-> d.decision]

decide(policies, st, ctx, wall) == decide_from(policies, 1, st, ctx, wall)

(***************************************************************************)
(* Risk engine (risk/engine.rs, risk/checks).  RiskContext: [market_state, *)
(* target, inventory, now, instant]; instant is the clock reading when     *)
(* MarketState::is_stale calls elapsed().                                  *)
(***************************************************************************)
RiskContext(ms, target, inventory, now, instant) ==
    [market_state |-> ms, target |-> target, inventory |-> inventory,
     now |-> now, instant |-> instant]

ChurnThrottleNew ==
    [last_bid_update |-> None, last_ask_update |-> None,
     last_bid_price |-> None, last_ask_price |-> None]

\* the state of the checks: the kill switch flag and the churn throttle
RiskStateNew(enabled) == [kill_switch |-> enabled, churn |-> ChurnThrottleNew]

max_staleness == 3000
churn_min_update_interval == 800

HardReasons == {"KillSwitchEnabled", "MarketDataStale", "CrossedOrInvalidBook"}

KillSwitchCheck(rs, ctx) ==
    [rs |-> rs, reasons |-> IF rs.kill_switch THEN <<"KillSwitchEnabled">> ELSE <<>>]

MarketFreshnessCheck(rs, ctx) ==
    [rs |-> rs,
     reasons |-> IF market_is_stale(ctx.market_state, max_staleness, ctx.instant)
                 THEN <<"MarketDataStale">> ELSE <<>>]

MarketSanityCheck(rs, ctx) ==
    LET ms == ctx.market_state
    IN  [rs |-> rs,
         reasons |-> IF /\ IsSome(ms.best_bid) /\ IsSome(ms.best_ask)
                        /\ Get(ms.best_bid) > 0 /\ Get(ms.best_ask) > 0
                        /\ Get(ms.best_bid) < Get(ms.best_ask)
                     THEN <<>> ELSE <<"CrossedOrInvalidBook">>]

\* is_too_soon that still throttles when the interval has just elapsed
is_too_soon_inclusive(now, last_update, interval) ==
    IF IsSome(last_update) THEN duration_since(now, Get(last_update)) <= interval ELSE FALSE

is_too_soon(now, last_update, interval) ==
    IF IsSome(last_update) THEN duration_since(now, Get(last_update)) < interval ELSE FALSE

\* |next - value| >= max(tick / 2, 1e-12), with tick > 0
moved_enough(previous, next, tick) ==
    IF IsSome(previous) THEN 2 * Abs(next - Get(previous)) >= Abs(tick) ELSE TRUE

ChurnThrottleCheck(rs, ctx) ==
    LET c == rs.churn
        has_bid == IsSome(ctx.target.bid)
        has_ask == IsSome(ctx.target.ask)
        bid_price == Get(ctx.target.bid).price
        ask_price == Get(ctx.target.ask).price
        bid_changed == has_bid /\ moved_enough(c.last_bid_price, bid_price, price_tick)
        ask_changed == has_ask /\ moved_enough(c.last_ask_price, ask_price, price_tick)
        bid_throttled == bid_changed
                         /\ is_too_soon(ctx.now, c.last_bid_update, churn_min_update_interval)
        ask_throttled == ask_changed
                         /\ is_too_soon(ctx.now, c.last_ask_update, churn_min_update_interval)
        c1 == IF bid_changed /\ ~bid_throttled
              THEN [c EXCEPT !.last_bid_update = Some(ctx.now),
                             !.last_bid_price = Some(bid_price)]
              ELSE c
        c2 == IF ask_changed /\ ~ask_throttled
              THEN [c1 EXCEPT !.last_ask_update = Some(ctx.now),
                              !.last_ask_price = Some(ask_price)]
              ELSE c1
    IN  [rs |-> [rs EXCEPT !.churn = c2],
         reasons |-> (IF bid_throttled THEN <<"ChurnThrottleBid">> ELSE <<>>)
                     \o (IF ask_throttled THEN <<"ChurnThrottleAsk">> ELSE <<>>)]

\* (best_ask - best_bid) / 2 < min_half_spread
MinEdgeCheck(rs, ctx) ==
    LET ms == ctx.market_state
    IN  [rs |-> rs,
         reasons |-> IF ~(IsSome(ms.best_bid) /\ IsSome(ms.best_ask))
                     THEN <<"MissingMarketData">>
                     ELSE IF Get(ms.best_ask) - Get(ms.best_bid) < 2 * min_half_spread
                          THEN <<"InsufficientEdge">> ELSE <<>>]

\* exposure_quote = projected_base * mid, compared doubled
ExposureLimitCheck(rs, ctx) ==
    LET m2 == mid_price2(ctx.market_state)
    IN  [rs |-> rs,
         reasons |->
            IF ~IsSome(m2) THEN <<"MissingMarketData">>
            ELSE (IF IsSome(ctx.target.bid)
                     /\ (ctx.inventory.base + Get(ctx.target.bid).quantity) * Get(m2)
                        > 2 * max_exposure_in_quote
                  THEN <<"ExposureLimit">> ELSE <<>>)
                 \o (IF IsSome(ctx.target.ask)
                        /\ (ctx.inventory.base - Get(ctx.target.ask).quantity) * Get(m2)
                           < -(2 * max_exposure_in_quote)
                     THEN <<"ExposureLimit">> ELSE <<>>)]

InventoryAvailableCheck(rs, ctx) ==
    [rs |-> rs,
     reasons |->
        (IF IsSome(ctx.target.bid)
            /\ Get(ctx.target.bid).price * Get(ctx.target.bid).quantity > ctx.inventory.quote
         THEN <<"InsufficientInventory">> ELSE <<>>)
        \o (IF IsSome(ctx.target.ask)
               /\ Get(ctx.target.ask).quantity > ctx.inventory.base
            THEN <<"InsufficientInventory">> ELSE <<>>)]

check_evaluate(check, rs, ctx) ==
    CASE check = "KillSwitch" -> KillSwitchCheck(rs, ctx)
      [] check = "MarketFreshness" -> MarketFreshnessCheck(rs, ctx)
      [] check = "MarketSanity" -> MarketSanityCheck(rs, ctx)
      [] check = "ChurnThrottle" -> ChurnThrottleCheck(rs, ctx)
      [] check = "MinEdge" -> MinEdgeCheck(rs, ctx)
      [] check = "ExposureLimit" -> ExposureLimitCheck(rs, ctx)
      [] check = "InventoryAvailable" -> InventoryAvailableCheck(rs, ctx)

\* the check list main.rs builds
MainChecks == <<"KillSwitch", "MarketFreshness", "MarketSanity", "ChurnThrottle", "MinEdge">>

\* the loop over the checks: every check runs, the reasons are appended
RECURSIVE run_checks(_, _, _, _, _)
run_checks(checks, i, rs, ctx, reasons) ==
    IF i > Len(checks) THEN [rs |-> rs, reasons |-> reasons]
    ELSE LET r == check_evaluate(checks[i], rs, ctx)
         IN  run_checks(checks, i + 1, r.rs, ctx, reasons \o r.reasons)

\* the same loop, keeping what each check returned: "Ok" or "Err"
RECURSIVE check_results(_, _, _, _)
check_results(checks, i, rs, ctx) ==
    IF i > Len(checks) THEN <<>>
    ELSE LET r == check_evaluate(checks[i], rs, ctx)
         IN  <<IF r.reasons = <<>> THEN "Ok" ELSE "Err">>
             \o check_results(checks, i + 1, r.rs, ctx)

Approved(target) == [kind |-> "Approved", target |-> target]
Hold(reasons) == [kind |-> "Hold", reasons |-> reasons]
Rejected(reasons, actions) ==
    [kind |-> "Rejected", reasons |-> reasons, required_actions |-> actions]

classify_rejects_without_actions(reasons, proposed_target) ==
    IF reasons = <<>> THEN Approved(proposed_target)
    ELSE IF \E i \in 1..Len(reasons) : reasons[i] \in HardReasons
         THEN Rejected(reasons, <<>>)
         ELSE Hold(reasons)

classify_hard_holds(reasons, proposed_target) ==
    IF reasons = <<>> THEN Approved(proposed_target) ELSE Hold(reasons)

classify_first_reason_only(reasons, proposed_target) ==
    IF reasons = <<>> THEN Approved(proposed_target)
    ELSE IF reasons[1] \in HardReasons
         THEN Rejected(reasons, <<ActCancelAll>>)
         ELSE Hold(reasons)

\* the tail of RiskEngine::evaluate: the decision for the collected reasons
classify(reasons, proposed_target) ==
    IF reasons = <<>> THEN Approved(proposed_target)
    ELSE IF \E i \in 1..Len(reasons) : reasons[i] \in HardReasons
         THEN Rejected(reasons, <<ActCancelAll>>)
         ELSE Hold(reasons)

\* RiskEngine::evaluate that returns at the first check that fails
risk_evaluate_stops_at_first_error(checks, rs, ctx, proposed_target) ==
    LET res == check_results(checks, 1, rs, ctx)
        failing == {i \in 1..Len(checks) : res[i] = "Err"}
        last == IF failing = {} THEN Len(checks)
                ELSE CHOOSE i \in failing : \A j \in failing : i <= j
        r == run_checks(SubSeq(checks, 1, last), 1, rs, ctx, <<>>)
    IN  [rs |-> r.rs, decision |-> classify(r.reasons, proposed_target)]

risk_evaluate(checks, rs, ctx, proposed_target) ==
    LET r == run_checks(checks, 1, rs, ctx, <<>>)
    IN  [rs |-> r.rs, decision |-> classify(r.reasons, proposed_target)]

(***************************************************************************)
(* Strategies (strategy/strategy_helpers.rs, strategy/strategies).         *)
(* inventory: [base, quote]; EMA values and the mid are doubled prices.    *)
(***************************************************************************)
Ok(target) == [ok |-> TRUE, target |-> target]
Err(reason) == [ok |-> FALSE, reason |-> reason]

QuoteTarget(bid, ask) == [bid |-> bid, ask |-> ask]

best_bid_ask(ms) ==
    IF IsSome(ms.best_bid) /\ IsSome(ms.best_ask)
    THEN Some(<<Get(ms.best_bid), Get(ms.best_ask)>>)
    ELSE None

\* the fair price, doubled
fair_price2(ms, signal) ==
    IF IsSome(ema_mid(signal)) THEN ema_mid(signal) ELSE mid_price2(ms)

\* Some(q) when q > 0
size_from_notional(price) ==
    LET q == quantity_from_notional(max_order_notional, price)
    IN  IF q > 0 THEN Some(q) ELSE None

\* bid.min(best_ask - tick) and ask.max(best_bid + tick), on rationals; simple_mm.rs
\* calls them clamp_post_only_bid and clamp_post_only_ask
clamp_bid(bid, best_ask) == RatMin(bid, Rat(best_ask - price_tick, 1))
clamp_ask(ask, best_bid) == RatMax(ask, Rat(best_bid + price_tick, 1))

\* MakerOnlyMeanReversionStrategy::for_instrument
mr_entry_threshold_ticks == 3
mr_trend_filter_ticks == 2
mr_counter_trend_multiplier == 2
mr_inventory_penalty == 1
mr_improve_if_possible == TRUE

\* compute_target with entry_threshold_ticks alone as the threshold
mean_reversion_plain_threshold(ms, signal, inventory) ==
    IF ~IsSome(best_bid_ask(ms)) THEN Err("MissingTopOfBook")
    ELSE IF ~IsSome(mid_price2(ms)) THEN Err("MissingMid")
    ELSE IF ~IsSome(ema_mid(signal)) THEN Err("MissingEma")
    ELSE
      LET best_bid == Get(ms.best_bid)
          best_ask == Get(ms.best_ask)
          tick == price_tick
          mid2 == Get(mid_price2(ms))
          ema2 == Get(ema_mid(signal))
          ema_slow2 == IF IsSome(ema_mid_slow(signal)) THEN Get(ema_mid_slow(signal))
                       ELSE ema2
          deviation2 == mid2 - ema2
          trend2 == mid2 - ema_slow2
          trend_deadband2 == 2 * mr_trend_filter_ticks * tick
          size == size_from_notional(Rat(ema2, 2))
          can_improve == mr_improve_if_possible /\ (best_ask - best_bid) >= 2 * tick
          \* exposure_norm = clamp(base * mid / max_exposure, -1, 1) = norm_num / norm_den
          norm_den == 2 * max_exposure_in_quote
          norm_num == Max(-norm_den, Min(norm_den, inventory.base * mid2))
          \* threshold_ticks as a rational over norm_den
          threshold_num(counter, penalised) == mr_entry_threshold_ticks * norm_den
          \* deviation_abs < threshold_ticks * tick
          below(counter, penalised) ==
              Abs(deviation2) * norm_den < 2 * threshold_num(counter, penalised) * tick
      IN  IF ~IsSome(size) THEN Err("InvalidQuantity")
          ELSE IF deviation2 > 0
          THEN IF below(trend2 > trend_deadband2, norm_num < 0)
               THEN Err("BelowEntryThreshold")
               ELSE LET desired_ask ==
                            clamp_ask(Rat(IF can_improve THEN best_ask - tick
                                          ELSE best_ask, 1), best_bid)
                        ask_price == round_price_to_tick(desired_ask)
                    IN  IF RatLt(desired_ask, Rat(best_bid + tick, 1))
                        THEN Err("WouldCrossPostOnly")
                        ELSE IF ask_price < best_bid + tick
                        THEN Err("WouldCrossPostOnly")
                        ELSE Ok(QuoteTarget(None, Some(Quote(ask_price, Get(size)))))
          ELSE IF below(trend2 < -trend_deadband2, norm_num > 0)
               THEN Err("BelowEntryThreshold")
               ELSE LET desired_bid ==
                            clamp_bid(Rat(IF can_improve THEN best_bid + tick
                                          ELSE best_bid, 1), best_ask)
                        bid_price == round_price_to_tick(desired_bid)
                    IN  IF RatLt(Rat(best_ask - tick, 1), desired_bid)
                        THEN Err("WouldCrossPostOnly")
                        ELSE IF bid_price > best_ask - tick
                        THEN Err("WouldCrossPostOnly")
                        ELSE Ok(QuoteTarget(Some(Quote(bid_price, Get(size))), None))

mean_reversion_compute_target(ms, signal, inventory) ==
    IF ~IsSome(best_bid_ask(ms)) THEN Err("MissingTopOfBook")
    ELSE IF ~IsSome(mid_price2(ms)) THEN Err("MissingMid")
    ELSE IF ~IsSome(ema_mid(signal)) THEN Err("MissingEma")
    ELSE
      LET best_bid == Get(ms.best_bid)
          best_ask == Get(ms.best_ask)
          tick == price_tick
          mid2 == Get(mid_price2(ms))
          ema2 == Get(ema_mid(signal))
          ema_slow2 == IF IsSome(ema_mid_slow(signal)) THEN Get(ema_mid_slow(signal))
                       ELSE ema2
          deviation2 == mid2 - ema2
          trend2 == mid2 - ema_slow2
          trend_deadband2 == 2 * mr_trend_filter_ticks * tick
          size == size_from_notional(Rat(ema2, 2))
          can_improve == mr_improve_if_possible /\ (best_ask - best_bid) >= 2 * tick
          \* exposure_norm = clamp(base * mid / max_exposure, -1, 1) = norm_num / norm_den
          norm_den == 2 * max_exposure_in_quote
          norm_num == Max(-norm_den, Min(norm_den, inventory.base * mid2))
          \* threshold_ticks as a rational over norm_den
          threshold_num(counter, penalised) ==
              mr_entry_threshold_ticks
              * (IF counter THEN mr_counter_trend_multiplier ELSE 1)
              * (IF penalised THEN norm_den + Abs(norm_num) * mr_inventory_penalty
                 ELSE norm_den)
          \* deviation_abs < threshold_ticks * tick
          below(counter, penalised) ==
              Abs(deviation2) * norm_den < 2 * threshold_num(counter, penalised) * tick
      IN  IF ~IsSome(size) THEN Err("InvalidQuantity")
          ELSE IF deviation2 > 0
          THEN IF below(trend2 > trend_deadband2, norm_num < 0)
               THEN Err("BelowEntryThreshold")
               ELSE LET desired_ask ==
                            clamp_ask(Rat(IF can_improve THEN best_ask - tick
                                          ELSE best_ask, 1), best_bid)
                        ask_price == round_price_to_tick(desired_ask)
                    IN  IF RatLt(desired_ask, Rat(best_bid + tick, 1))
                        THEN Err("WouldCrossPostOnly")
                        ELSE IF ask_price < best_bid + tick
                        THEN Err("WouldCrossPostOnly")
                        ELSE Ok(QuoteTarget(None, Some(Quote(ask_price, Get(size)))))
          ELSE IF below(trend2 < -trend_deadband2, norm_num > 0)
               THEN Err("BelowEntryThreshold")
               ELSE LET desired_bid ==
                            clamp_bid(Rat(IF can_improve THEN best_bid + tick
                                          ELSE best_bid, 1), best_ask)
                        bid_price == round_price_to_tick(desired_bid)
                    IN  IF RatLt(Rat(best_ask - tick, 1), desired_bid)
                        THEN Err("WouldCrossPostOnly")
                        ELSE IF bid_price > best_ask - tick
                        THEN Err("WouldCrossPostOnly")
                        ELSE Ok(QuoteTarget(Some(Quote(bid_price, Get(size))), None))

\* SimpleMarketMakerStrategy::for_instrument: new(instrument, 200.0, 10.0)
mm_max_exposure_quote == 200
mm_max_skew_bps == 10

simple_mm_compute_target(ms, signal, inventory) ==
    IF ~IsSome(best_bid_ask(ms)) THEN Err("MissingTopOfBook")
    ELSE IF ~IsSome(fair_price2(ms, signal)) THEN Err("MissingFairPrice")
    ELSE
      LET best_bid == Get(ms.best_bid)
          best_ask == Get(ms.best_ask)
          tick == price_tick
          fair2 == Get(fair_price2(ms, signal))
          \* exposure_quote = base * fair, doubled
          exposure2 == inventory.base * fair2
          norm_den == 2 * mm_max_exposure_quote
          norm_num == Max(-norm_den, Min(norm_den, exposure2))
          \* skewed_fair = fair - fair * norm * max_skew_bps / 10000
          sk_den == 2 * norm_den * 10000
          skewed_fair == Rat(fair2 * (norm_den * 10000 - norm_num * mm_max_skew_bps), sk_den)
          size == size_from_notional(skewed_fair)
          too_long == exposure2 > 2 * mm_max_exposure_quote
          too_short == exposure2 < -(2 * mm_max_exposure_quote)
          can_improve == (best_ask - best_bid) >= 2 * tick
          mid == Rat(best_bid + best_ask, 2)
          bias_up == RatLt(mid, skewed_fair)
          bias_down == RatLt(skewed_fair, mid)
          bid0 == clamp_bid(Rat(IF ~too_long /\ bias_up /\ can_improve
                                THEN best_bid + tick ELSE best_bid, 1), best_ask)
          ask0 == clamp_ask(Rat(IF ~too_short /\ bias_down /\ can_improve
                                THEN best_ask - tick ELSE best_ask, 1), best_bid)
          bid_floor_from_fair == Rat(skewed_fair.num - min_half_spread * sk_den, sk_den)
          ask_floor_from_fair == Rat(skewed_fair.num + min_half_spread * sk_den, sk_den)
          desired_bid == clamp_bid(RatMax(bid0, bid_floor_from_fair), best_ask)
          desired_ask == clamp_ask(RatMin(ask0, ask_floor_from_fair), best_bid)
          bid_price == round_price_to_tick(desired_bid)
          ask_price == round_price_to_tick(desired_ask)
      IN  IF ~IsSome(size) THEN Err("InvalidQuantity")
          ELSE IF RatLt(Rat(best_ask - tick, 1), desired_bid)
                  \/ RatLt(desired_ask, Rat(best_bid + tick, 1))
          THEN Err("WouldCrossPostOnly")
          ELSE IF too_long /\ too_short THEN Err("BothSidesSuppressedByExposure")
          ELSE Ok(QuoteTarget(IF too_long THEN None
                              ELSE Some(Quote(bid_price, Get(size))),
                              IF too_short THEN None
                              ELSE Some(Quote(ask_price, Get(size)))))

\* Scenario::strategy and Scenario::signals
StrategyKinds == {"mean-reversion", "simple-mm"}

compute_target(kind, ms, signal, inventory) ==
    IF kind = "simple-mm" THEN simple_mm_compute_target(ms, signal, inventory)
    ELSE mean_reversion_compute_target(ms, signal, inventory)

\* the fast tau is the argument Scenario::signals passes; the slow and the
\* volatility tau are not given there and are taken as four times the fast one
scenario_signals(kind) ==
    LET fast == IF kind = "simple-mm" THEN 3000 ELSE 60000
    IN  SignalStateNew(fast, 4 * fast, 4 * fast)

(***************************************************************************)
(* Kraken execution venue (kraken/kraken_venue.rs).  book is the set of    *)
(* orders open on the venue; out is the result of the REST call an action  *)
(* makes: "ok", "err" (a transport or venue error), or for a cancel        *)
(* "unknown" (the venue answers "unknown order").  The outcome carries the *)
(* book, the reports emit() sent, and the executions the venue generated   *)
(* for the websocket feed of kraken_executions.rs.                         *)
(***************************************************************************)
VenueOrder(id, side, price, quantity) ==
    [order_id |-> id, side |-> side, price |-> price, quantity |-> quantity]

IsOpen(book, id) == \E o \in book : o.order_id = id

\* the orders of a book in order of their ids
RECURSIVE BookSeq(_)
BookSeq(book) ==
    IF book = {} THEN <<>>
    ELSE LET o == CHOOSE x \in book : \A y \in book : x.order_id <= y.order_id
         IN  <<o>> \o BookSeq(book \ {o})

RECURSIVE CancelledOf(_)
CancelledOf(orders) ==
    IF orders = <<>> THEN <<>>
    ELSE <<Report("Cancelled", Head(orders).order_id, Head(orders).side, 0, 0)>>
         \o CancelledOf(Tail(orders))

OutcomeValid(book, action, out) ==
    CASE action.action = "Cancel" ->
            out \in {"ok", "err"} \/ (out = "unknown" /\ ~IsOpen(book, action.order_id))
      [] OTHER -> out \in {"ok", "err"}

execute_one(v, action, out) ==
    CASE action.action = "CancelAll" ->
            IF out = "ok"
            THEN [book |-> {},
                  reports |-> Append(v.reports, RepCancelledAll),
                  ws |-> v.ws \o CancelledOf(BookSeq(v.book))]
            ELSE [v EXCEPT !.reports = Append(@, RepVenueError)]
      [] action.action = "Cancel" ->
            LET cancel == Report("Cancel", action.order_id, action.side, 0, 0)
                cancelled == Report("Cancelled", action.order_id, action.side, 0, 0)
                failed == Report("CancelFailed", action.order_id, action.side, 0, 0)
            IN  IF out = "ok" /\ IsOpen(v.book, action.order_id)
                THEN [book |-> {o \in v.book : o.order_id # action.order_id},
                      reports |-> v.reports \o <<cancel, cancelled>>,
                      ws |-> Append(v.ws, cancelled)]
                ELSE IF out = "ok"
                THEN [v EXCEPT !.reports = @ \o <<cancel, failed>>]
                ELSE IF out = "unknown"
                THEN [v EXCEPT !.reports = @ \o <<cancel, cancelled>>]
                ELSE [v EXCEPT !.reports = @ \o <<cancel, RepVenueError>>]
      [] action.action = "Place" ->
            LET placed == Report("Placed", action.order_id, action.side,
                                 action.price, action.quantity)
                accepted == Report("Accepted", action.order_id, action.side,
                                   action.price, action.quantity)
                rejected == Report("Rejected", action.order_id, action.side, 0, 0)
            IN  IF out = "ok"
                THEN [book |-> v.book \cup {VenueOrder(action.order_id, action.side,
                                                       action.price, action.quantity)},
                      reports |-> v.reports \o <<placed, accepted>>,
                      ws |-> Append(v.ws, accepted)]
                ELSE [v EXCEPT !.reports = @ \o <<placed, rejected>>]

RECURSIVE execute_from(_, _, _, _)
execute_from(v, actions, outs, i) ==
    IF i > Len(actions) THEN v
    ELSE execute_from(execute_one(v, actions[i], outs[i]), actions, outs, i + 1)

RECURSIVE OutcomesValid(_, _, _, _)
OutcomesValid(book, actions, outs, i) ==
    IF i > Len(actions) THEN TRUE
    ELSE /\ OutcomeValid(book, actions[i], outs[i])
         /\ OutcomesValid(execute_one([book |-> book, reports |-> <<>>, ws |-> <<>>],
                                      actions[i], outs[i]).book,
                          actions, outs, i + 1)

\* venue.execute(actions) on the book: [book, reports, ws] with the reports
\* and executions this call produced
execute(book, actions, outs) ==
    execute_from([book |-> book, reports |-> <<>>, ws |-> <<>>], actions, outs, 1)

Outcomes == {"ok", "err", "unknown"}

PlacedCount(reports) == Cardinality({i \in 1..Len(reports) : reports[i].type = "Placed"})

(***************************************************************************)
(* KrakenClient::next_nonce (kraken/kraken_client.rs).  last_nonce is the  *)
(* AtomicU64; history lists the values it has held, oldest first; each     *)
(* caller is idle, about to load or about to compare-exchange, and keeps   *)
(* its now_ms, the prev it loaded and the newest value it has observed;    *)
(* returned lists the nonces in the order their compare-exchange succeeded,*)
(* each with the now_ms of its call.                                       *)
(***************************************************************************)
NumCallers == 2
Callers == 1..NumCallers

CallerIdle == [pc |-> "idle", now_ms |-> 0, prev |-> 0, seen |-> 0, failed |-> 0]

KrakenClientNew ==
    [last_nonce |-> 0, history |-> <<0>>, calls |-> [c \in Callers |-> CallerIdle],
     returned |-> <<>>]

\* let next = if now_ms > prev { now_ms } else { prev + 1 }
next_nonce_value(now_ms, prev) == IF now_ms > prev THEN now_ms ELSE prev + 1

\* the values a Relaxed load by a caller may yield: any value of the
\* modification order that is not older than one the caller has observed
LoadValues(k, c) ==
    {k.history[i] : i \in {j \in 1..Len(k.history) : k.history[j] >= k.calls[c].seen}}

(***************************************************************************)
(* The event loop (main.rs)                                                *)
(***************************************************************************)
\* bounds of the model
MaxEvents == 2
MaxOrders == 4
MaxClock == 1000
AdvanceMs == 1000
MaxFills == 1
StallMs == 3001

\* the market events the feed may deliver: two books on the tick grid and a
\* crossed book
MarketEvents ==
    {EvTopOfBook(20, 22), EvTopOfBook(34, 36), EvTopOfBook(24, 22)}

\* the snapshots the inventory watch channel may hold
Inventories == {[base |-> 0, quote |-> 1000], [base |-> 12, quote |-> 1000]}

\* the readings of Utc::now()
Walls == {[hour |-> 12, weekday |-> "Mon"], [hour |-> 22, weekday |-> "Mon"]}

STARTUP_ACTIONS_none == <<>>

STARTUP_ACTIONS == <<ActCancelAll>>

NoObs == [op |-> "none"]

VARIABLES
    clock,      \* the monotonic clock, ms
    pc,         \* "startup" before STARTUP_ACTIONS ran, then "running", "stopped" after the loop
    strategy,   \* the --strategy argument
    market,     \* MarketState
    signal,     \* SignalState
    om,         \* OrderManager
    sched,      \* the state of the scheduler's policies
    risk,       \* the state of the risk checks
    book,       \* the orders open on the venue
    ws,         \* executions the venue generated, not yet sent by the websocket task
    reports,    \* the engine's receiver of the order report channel
    listener,   \* Placed reports the MinIntervalPolicy listener has not yet consumed
    nextId,     \* the number of order ids generated
    events,     \* the number of market events consumed
    fills,      \* the number of fills the venue made
    client,     \* KrakenClient: last_nonce and the calls of next_nonce under way
    obs         \* what the last pass of the loop did, NoObs after any other step

vars == <<clock, pc, strategy, market, signal, om, sched, risk, book, ws, reports,
          listener, nextId, events, fills, client, obs>>

Init ==
    /\ clock = 0
    /\ pc = "startup"
    /\ strategy \in StrategyKinds
    /\ market = MarketStateNew
    /\ signal = scenario_signals(strategy)
    /\ om = OrderManagerDefault
    /\ sched = SchedulerNew(TradingHoursDefault)
    /\ risk = RiskStateNew(FALSE)
    /\ book = {}
    /\ ws = <<>>
    /\ reports = <<>>
    /\ listener = 0
    /\ nextId = 0
    /\ events = 0
    /\ fills = 0
    /\ client = KrakenClientNew
    /\ obs = NoObs

\* venue.execute(STARTUP_ACTIONS) before the loop
Startup ==
    /\ pc = "startup"
    /\ \E outs \in [1..Len(STARTUP_ACTIONS) -> Outcomes] :
          /\ OutcomesValid(book, STARTUP_ACTIONS, outs, 1)
          /\ LET x == execute(book, STARTUP_ACTIONS, outs)
             IN  /\ book' = x.book
                 /\ reports' = reports \o x.reports
                 /\ ws' = ws \o x.ws
    /\ pc' = "running"
    /\ obs' = [op |-> "startup", executed |-> STARTUP_ACTIONS]
    /\ UNCHANGED <<client, clock, strategy, market, signal, om, sched, risk, listener,
                   nextId, events, fills>>

UsesId(p) == p.plan \in {"Place", "Replace"}

\* order_manager.actions_for_target with the ids generate_order_id draws
loop_actions_for_target(target, now) ==
    LET bid_plan == plan(om.bid_side, SideInputs(now, price_tick, target.bid, nextId + 1))
        ask_id == IF UsesId(bid_plan) THEN nextId + 2 ELSE nextId + 1
    IN  actions_for_target(om, target, now, nextId + 1, ask_id)

\* Tick with a Hold treated like a rejection: the pass executes CancelAll
Tick_hold_cancels_all(ms1, sg1, d, tr, re, aft) ==
    LET base == [market |-> ms1, signal |-> sg1, sched |-> d.st, decision |-> d.decision,
                 risk |-> risk, om |-> om, actions |-> <<>>, ids |-> 0,
                 reasons |-> <<>>, reached_risk |-> FALSE]
    IN  IF ~IsSome(tr) THEN base @@ [result |-> "skip"]
        ELSE IF ~IsSome(re) THEN base @@ [result |-> "noquote"]
        ELSE IF Get(re).decision.kind = "Hold"
        THEN [base EXCEPT !.risk = Get(re).rs, !.reasons = Get(re).decision.reasons,
                          !.reached_risk = TRUE,
                          !.actions = <<ActCancelAll>>] @@ [result |-> "hold"]
        ELSE IF Get(re).decision.kind = "Rejected"
        THEN [base EXCEPT !.risk = Get(re).rs, !.reasons = Get(re).decision.reasons,
                          !.reached_risk = TRUE,
                          !.actions = Get(re).decision.required_actions]
             @@ [result |-> "rejected"]
        ELSE [base EXCEPT !.risk = Get(re).rs, !.reached_risk = TRUE,
                          !.om = Get(aft).om,
                          !.actions = Get(aft).actions,
                          !.ids = (IF UsesId(Get(aft).plans.bid) THEN 1 ELSE 0)
                                  + (IF UsesId(Get(aft).plans.ask) THEN 1 ELSE 0)]
             @@ [result |-> "approved"]

\* What one pass of the market-event branch leaves behind.  d is the
\* scheduler's answer; tr, re and aft are Some(result) of compute_target,
\* risk_engine.evaluate and actions_for_target, or None where the pass did
\* not get that far.
Tick(ms1, sg1, d, tr, re, aft) ==
    LET base == [market |-> ms1, signal |-> sg1, sched |-> d.st, decision |-> d.decision,
                 risk |-> risk, om |-> om, actions |-> <<>>, ids |-> 0,
                 reasons |-> <<>>, reached_risk |-> FALSE]
    IN  IF ~IsSome(tr) THEN base @@ [result |-> "skip"]
        ELSE IF ~IsSome(re) THEN base @@ [result |-> "noquote"]
        ELSE IF Get(re).decision.kind = "Hold"
        THEN [base EXCEPT !.risk = Get(re).rs, !.reasons = Get(re).decision.reasons,
                          !.reached_risk = TRUE] @@ [result |-> "hold"]
        ELSE IF Get(re).decision.kind = "Rejected"
        THEN [base EXCEPT !.risk = Get(re).rs, !.reasons = Get(re).decision.reasons,
                          !.reached_risk = TRUE,
                          !.actions = Get(re).decision.required_actions]
             @@ [result |-> "rejected"]
        ELSE [base EXCEPT !.risk = Get(re).rs, !.reached_risk = TRUE,
                          !.om = Get(aft).om,
                          !.actions = Get(aft).actions,
                          !.ids = (IF UsesId(Get(aft).plans.bid) THEN 1 ELSE 0)
                                  + (IF UsesId(Get(aft).plans.ask) THEN 1 ELSE 0)]
             @@ [result |-> "approved"]

\* the order report channel after an execute that emitted `emitted` while the
\* websocket task sent `sent`: execute awaits the venue between its emits, and
\* the task sends while execute awaits the answer to its last request
sent_during(emitted, sent) ==
    IF emitted = <<>> THEN sent
    ELSE SubSeq(emitted, 1, Len(emitted) - 1) \o sent \o <<emitted[Len(emitted)]>>

\* the market-event branch for an event, an inventory snapshot, a wall-clock
\* reading and a stall of the loop drawn from the given sets; each stage is
\* computed once and handed on
MarketEventOf(evs, invs, walls, stalls) ==
    /\ pc = "running"
    /\ events < MaxEvents
    /\ \E event \in evs, inventory \in invs, wall \in walls, stall \in stalls :
       \E ms1 \in {on_market_event(market, event, clock)} :
       \E sg1 \in {signal_update(signal, ms1, clock)} :
       \E d \in {decide(MainPolicies, sched, ScheduleContext(clock, ms1, om), wall)} :
       \E tr \in {IF d.decision = Evaluate
                  THEN Some(compute_target(strategy, ms1, sg1, inventory))
                  ELSE None} :
       \E re \in {IF IsSome(tr) /\ Get(tr).ok
                  THEN Some(risk_evaluate(MainChecks, risk,
                                RiskContext(ms1, Get(tr).target, inventory, clock,
                                            clock + stall),
                                Get(tr).target))
                  ELSE None} :
       \E aft \in {IF IsSome(re) /\ Get(re).decision.kind = "Approved"
                   THEN Some(loop_actions_for_target(Get(re).decision.target, clock))
                   ELSE None} :
       \E t \in {Tick(ms1, sg1, d, tr, re, aft)} :
          /\ stall > 0 => (t.reached_risk /\ clock < MaxClock)
          /\ nextId + t.ids <= MaxOrders
          /\ \E outs \in [1..Len(t.actions) -> Outcomes] :
                /\ OutcomesValid(book, t.actions, outs, 1)
                /\ \E x \in {execute(book, t.actions, outs)} :
                   \E k \in 0..(IF Len(x.reports) >= 2 THEN Len(ws) ELSE 0) :
                      /\ book' = x.book
                      /\ reports' = reports \o sent_during(x.reports, SubSeq(ws, 1, k))
                      /\ ws' = SubSeq(ws, k + 1, Len(ws)) \o x.ws
                      /\ listener' = listener + PlacedCount(x.reports)
          /\ clock' = clock + stall
          /\ market' = t.market
          /\ signal' = t.signal
          /\ sched' = t.sched
          /\ risk' = t.risk
          /\ om' = t.om
          /\ nextId' = nextId + t.ids
          /\ obs' = [op |-> "tick", inflight |-> has_inflight_actions(om),
                     decision |-> t.decision, result |-> t.result,
                     reasons |-> t.reasons, executed |-> t.actions]
    /\ events' = events + 1
    /\ UNCHANGED <<client, pc, strategy, fills>>

MarketEvent == MarketEventOf(MarketEvents, Inventories, Walls, {0, StallMs})

\* what order_report_receiver.recv() yields next: the head of the receiver's
\* view, which is a report, the Lagged(n) the receiver owes or Closed
RecvLagged(n) == [type |-> "Lagged", n |-> n]
RecvClosed == [type |-> "Closed"]

\* OrderReport with a lagged receiver handled like a closed channel
OrderReport_lag_stops ==
    /\ pc = "running"
    /\ reports # <<>>
    /\ om' = IF Head(reports).type \in {"Lagged", "Closed"}
             THEN om ELSE on_report(om, Head(reports), clock)
    /\ pc' = IF Head(reports).type \in {"Lagged", "Closed"} THEN "stopped" ELSE pc
    /\ reports' = Tail(reports)
    /\ obs' = IF Head(reports).type \in {"Lagged", "Closed"}
              THEN [op |-> "recv_error", error |-> Head(reports)] ELSE NoObs
    /\ UNCHANGED <<client, clock, strategy, market, signal, sched, risk, book, ws,
                   listener, nextId, events, fills>>

\* the order-report branch: Ok(report) => order_manager.on_report(report),
\* Err(Lagged(n)) => a warning, Err(Closed) => break
OrderReport ==
    /\ pc = "running"
    /\ reports # <<>>
    /\ om' = IF Head(reports).type \in {"Lagged", "Closed"}
             THEN om ELSE on_report(om, Head(reports), clock)
    /\ pc' = IF Head(reports).type = "Closed" THEN "stopped" ELSE pc
    /\ reports' = Tail(reports)
    /\ obs' = IF Head(reports).type \in {"Lagged", "Closed"}
              THEN [op |-> "recv_error", error |-> Head(reports)] ELSE NoObs
    /\ UNCHANGED <<client, clock, strategy, market, signal, sched, risk, book, ws,
                   listener, nextId, events, fills>>

\* the listener task of MinIntervalPolicy consumes a Placed report
ListenerPlaced ==
    /\ listener > 0
    /\ sched' = min_interval_on_report(sched, Report("Placed", 0, "-", 0, 0), clock)
    /\ listener' = listener - 1
    /\ obs' = NoObs
    /\ UNCHANGED <<client, clock, pc, strategy, market, signal, om, risk, book, ws, reports,
                   nextId, events, fills>>

\* the websocket task of kraken_executions.rs forwards the next execution
WsDeliver ==
    /\ ws # <<>>
    /\ reports' = Append(reports, Head(ws))
    /\ ws' = Tail(ws)
    /\ obs' = NoObs
    /\ UNCHANGED <<client, clock, pc, strategy, market, signal, om, sched, risk, book,
                   listener, nextId, events, fills>>

\* the venue fills a resting order, wholly or by one quantity step
VenueFill ==
    /\ fills < MaxFills
    /\ fills' = fills + 1
    /\ \E o \in book :
          \/ /\ book' = book \ {o}
             /\ ws' = Append(ws, Report("Filled", o.order_id, o.side, o.price, o.quantity))
          \/ /\ o.quantity > quantity_step
             /\ book' = (book \ {o})
                        \cup {[o EXCEPT !.quantity = o.quantity - quantity_step]}
             /\ ws' = Append(ws, Report("PartiallyFilled", o.order_id, o.side, o.price,
                                        quantity_step))
    /\ obs' = NoObs
    /\ UNCHANGED <<client, clock, pc, strategy, market, signal, om, sched, risk, reports,
                   listener, nextId, events>>

Advance ==
    /\ pc = "running"
    /\ clock < MaxClock
    /\ clock' = clock + AdvanceMs
    /\ obs' = NoObs
    /\ UNCHANGED <<client, pc, strategy, market, signal, om, sched, risk, book, ws, reports,
                   listener, nextId, events, fills>>

Next ==
    \/ Startup
    \/ MarketEvent
    \/ OrderReport
    \/ ListenerPlaced
    \/ WsDeliver
    \/ VenueFill
    \/ Advance

Spec == Init /\ [][Next]_vars

(***************************************************************************)
(* OrderManager under arbitrary reports and targets: the calls the loop    *)
(* makes on it, with every report the channel can carry                    *)
(***************************************************************************)
SideQuotes == {Quote(20, 4), Quote(34, 4)}

SideTargets ==
    {QuoteTarget(b, a) : b \in {None} \cup {Some(q) : q \in SideQuotes},
                         a \in {None}}

\* the ids a report may carry
MaxReportId == 2

\* reports for the bid side with every id and quote, one of each type for
\* the ask side, and the two reports that name no side
SideReports ==
    {Report(type, id, "Buy", q.price, q.quantity) :
        type \in {"Placed", "Accepted"}, id \in 1..MaxReportId, q \in SideQuotes}
    \cup {Report(type, id, "Buy", 0, 0) :
        type \in {"Rejected", "Cancel", "Cancelled", "Filled", "CancelFailed"},
        id \in 1..MaxReportId}
    \cup {Report("PartiallyFilled", id, "Buy", 20, quantity_step) : id \in 1..MaxReportId}
    \cup {Report(type, 1, "Sell", 36, 4) : type \in {"Placed", "Accepted"}}
    \cup {Report(type, 1, "Sell", 0, 0) :
        type \in {"Rejected", "Cancel", "Cancelled", "Filled", "CancelFailed"}}
    \cup {Report("PartiallyFilled", 1, "Sell", 36, quantity_step)}
    \cup {RepCancelledAll, RepVenueError}

InitSide ==
    /\ clock = 0
    /\ pc = "side"
    /\ strategy = "simple-mm"
    /\ market = MarketStateNew
    /\ signal = scenario_signals(strategy)
    /\ om = OrderManagerDefault
    /\ sched = SchedulerNew(TradingHoursDefault)
    /\ risk = RiskStateNew(FALSE)
    /\ book = {}
    /\ ws = <<>>
    /\ reports = <<>>
    /\ listener = 0
    /\ nextId = 0
    /\ events = 0
    /\ fills = 0
    /\ client = KrakenClientNew
    /\ obs = NoObs

SideOf(o, side) == IF side = "Buy" THEN o.bid_side ELSE o.ask_side

SideReport ==
    /\ \E report \in SideReports :
          /\ om' = on_report(om, report, clock)
          /\ obs' = [op |-> "on_report", report |-> report,
                     before |-> SideOf(om, report.side), manager |-> om]
    /\ UNCHANGED <<client, clock, pc, strategy, market, signal, sched, risk, book, ws, reports,
                   listener, nextId, events, fills>>

SideTarget ==
    /\ \E target \in SideTargets :
          LET bid_plan == plan(om.bid_side,
                               SideInputs(clock, price_tick, target.bid, nextId + 1))
              ask_id == IF UsesId(bid_plan) THEN nextId + 2 ELSE nextId + 1
              aft == actions_for_target(om, target, clock, nextId + 1, ask_id)
              ids == (IF UsesId(aft.plans.bid) THEN 1 ELSE 0)
                     + (IF UsesId(aft.plans.ask) THEN 1 ELSE 0)
          IN  /\ nextId + ids <= MaxReportId
              /\ om' = aft.om
              /\ nextId' = nextId + ids
              /\ obs' = [op |-> "actions_for_target", before |-> om.bid_side,
                         target |-> target.bid, new_id |-> nextId + 1,
                         plan |-> aft.plans.bid,
                         actions |-> side_actions_for_target(om.bid_side,
                                        SideInputs(clock, price_tick, target.bid,
                                                   nextId + 1)).actions,
                         all_actions |-> aft.actions]
    /\ UNCHANGED <<client, clock, pc, strategy, market, signal, sched, risk, book, ws, reports,
                   listener, events, fills>>

SideAdvance ==
    /\ clock < MaxClock
    /\ clock' = clock + AdvanceMs
    /\ obs' = NoObs
    /\ UNCHANGED <<client, pc, strategy, market, signal, om, sched, risk, book, ws, reports,
                   listener, nextId, events, fills>>

NextSide ==
    \/ SideReport
    \/ SideTarget
    \/ SideAdvance

SpecSide == InitSide /\ [][NextSide]_vars

(***************************************************************************)
(* RiskEngine under arbitrary check lists, targets and market data         *)
(***************************************************************************)
CheckLists ==
    {MainChecks,
     <<"ChurnThrottle", "MinEdge", "ExposureLimit", "InventoryAvailable", "KillSwitch">>,
     <<"MinEdge">>}

RiskTargets ==
    {QuoteTarget(Some(Quote(20, 4)), Some(Quote(22, 4))),
     QuoteTarget(Some(Quote(34, 4)), None),
     QuoteTarget(None, Some(Quote(36, 4)))}

InitRisk ==
    /\ clock = 0
    /\ pc = "risk"
    /\ strategy = "simple-mm"
    /\ market = MarketStateNew
    /\ signal = scenario_signals(strategy)
    /\ om = OrderManagerDefault
    /\ sched = SchedulerNew(TradingHoursDefault)
    /\ \E enabled \in BOOLEAN : risk = RiskStateNew(enabled)
    /\ book = {}
    /\ ws = <<>>
    /\ reports = <<>>
    /\ listener = 0
    /\ nextId = 0
    /\ events = 0
    /\ fills = 0
    /\ client = KrakenClientNew
    /\ obs = NoObs

RiskMarket ==
    /\ events < MaxEvents
    /\ \E event \in MarketEvents : market' = on_market_event(market, event, clock)
    /\ events' = events + 1
    /\ obs' = NoObs
    /\ UNCHANGED <<client, clock, pc, strategy, signal, om, sched, risk, book, ws, reports,
                   listener, nextId, fills>>

RiskEvaluate ==
    /\ \E checks \in CheckLists, target \in RiskTargets, inventory \in Inventories,
          stall \in {0, StallMs} :
          LET ctx == RiskContext(market, target, inventory, clock, clock + stall)
              re == risk_evaluate(checks, risk, ctx, target)
          IN  /\ stall > 0 => clock < MaxClock
              /\ clock' = clock + stall
              /\ risk' = re.rs
              /\ obs' = [op |-> "evaluate", checks |-> checks, target |-> target,
                         before |-> risk, ctx |-> ctx,
                         results |-> check_results(checks, 1, risk, ctx),
                         reasons |-> run_checks(checks, 1, risk, ctx, <<>>).reasons,
                         decision |-> re.decision]
    /\ UNCHANGED <<client, pc, strategy, market, signal, om, sched, book, ws, reports,
                   listener, nextId, events, fills>>

RiskAdvance ==
    /\ clock < MaxClock
    /\ clock' = clock + AdvanceMs
    /\ obs' = NoObs
    /\ UNCHANGED <<client, pc, strategy, market, signal, om, sched, risk, book, ws, reports,
                   listener, nextId, events, fills>>

NextRisk ==
    \/ RiskMarket
    \/ RiskEvaluate
    \/ RiskAdvance

SpecRisk == InitRisk /\ [][NextRisk]_vars

(***************************************************************************)
(* One OrderSideManager (the bid side) around the replace policy: targets  *)
(* whose price and quantity sit on both sides of the thresholds, reports   *)
(* for the ids the manager generated and for an id it never generated (0), *)
(* and clock steps on both sides of min_lifetime                           *)
(***************************************************************************)
MaxSteps == 2

PlanPrices == {20, 24, 25, 26}
PlanQuantities == {4, 5, 6}

PlanTargets ==
    {None} \cup {Some(Quote(p, q)) : p \in PlanPrices, q \in PlanQuantities}

PlanSteps == {1, min_lifetime - 1, min_lifetime}

\* a fill of one step and a fill larger than anything resting
PlanFills == {quantity_step, 4 * quantity_step}

PlanReports(ids) ==
    {Report(type, id, "Buy", 20, 4) : type \in {"Placed", "Accepted"}, id \in ids}
    \cup {Report(type, id, "Buy", 0, 0) :
            type \in {"Rejected", "Cancel", "Cancelled", "Filled"}, id \in ids}
    \cup {Report("PartiallyFilled", id, "Buy", 20, q) : id \in ids, q \in PlanFills}

InitPlan ==
    /\ clock = 0
    /\ pc = "plan"
    /\ strategy = "simple-mm"
    /\ market = MarketStateNew
    /\ signal = scenario_signals(strategy)
    /\ om = OrderManagerDefault
    /\ sched = SchedulerNew(TradingHoursDefault)
    /\ risk = RiskStateNew(FALSE)
    /\ book = {}
    /\ ws = <<>>
    /\ reports = <<>>
    /\ listener = 0
    /\ nextId = 0
    /\ events = 0
    /\ fills = 0
    /\ client = KrakenClientNew
    /\ obs = NoObs

\* bid_side.on_report(report) at the instant the clock shows
PlanReport ==
    /\ \E report \in PlanReports(0..nextId) :
          /\ om' = [om EXCEPT !.bid_side = side_on_report(om.bid_side, report, clock)]
          /\ obs' = [op |-> "on_report", report |-> report, now |-> clock,
                     before |-> om.bid_side]
    /\ UNCHANGED <<client, clock, pc, strategy, market, signal, sched, risk, book, ws, reports,
                   listener, nextId, events, fills>>

\* bid_side.actions_for_target(inputs) with now = the clock; stale is what
\* is_stale returned when plan called it
PlanTarget ==
    /\ \E target \in PlanTargets :
       \E inputs \in {SideInputs(clock, price_tick, target, nextId + 1)} :
       \E r \in {side_actions_for_target(om.bid_side, inputs)} :
          /\ UsesId(r.plan) => nextId < MaxReportId
          /\ om' = [om EXCEPT !.bid_side = r.mgr]
          /\ nextId' = IF UsesId(r.plan) THEN nextId + 1 ELSE nextId
          /\ obs' = [op |-> "actions_for_target", before |-> om.bid_side,
                     target |-> target, now |-> clock, new_id |-> nextId + 1,
                     plan |-> r.plan, actions |-> r.actions,
                     stale |-> IF om.bid_side.state.kind = "Live" /\ IsSome(target)
                               THEN Some(is_stale(om.bid_side, om.bid_side.state.resting,
                                                  Get(target), clock, price_tick))
                               ELSE None]
    /\ UNCHANGED <<client, clock, pc, strategy, market, signal, sched, risk, book, ws, reports,
                   listener, events, fills>>

PlanAdvance ==
    /\ events < MaxSteps
    /\ \E dt \in PlanSteps : clock' = clock + dt
    /\ events' = events + 1
    /\ obs' = NoObs
    /\ UNCHANGED <<client, pc, strategy, market, signal, om, sched, risk, book, ws, reports,
                   listener, nextId, fills>>

NextPlan ==
    \/ PlanReport
    \/ PlanTarget
    \/ PlanAdvance

SpecPlan == InitPlan /\ [][NextPlan]_vars

(***************************************************************************)
(* actions_for_target while an action is in flight: the event loop, and    *)
(* beside it one OrderSideManager called directly in every state           *)
(***************************************************************************)
InitInflight == Init \/ InitPlan

NextInflight ==
    \/ pc = "plan" /\ NextPlan
    \/ pc # "plan" /\ Next

SpecInflight == InitInflight /\ [][NextInflight]_vars

(***************************************************************************)
(* ChurnThrottleCheck alone: one-sided and two-sided targets whose prices  *)
(* stay, move by half a tick and move by a tick, and clock steps on both   *)
(* sides of min_update_interval                                            *)
(***************************************************************************)
ChurnBids == {None, Some(Quote(20, 4)), Some(Quote(21, 4)), Some(Quote(22, 4))}
ChurnAsks == {None, Some(Quote(30, 4)), Some(Quote(32, 4))}

ChurnTargets == {QuoteTarget(b, a) : b \in ChurnBids, a \in ChurnAsks}

ChurnSteps == {1, churn_min_update_interval - 1, churn_min_update_interval}

InitChurn ==
    /\ clock = 0
    /\ pc = "churn"
    /\ strategy = "simple-mm"
    /\ market = MarketStateNew
    /\ signal = scenario_signals(strategy)
    /\ om = OrderManagerDefault
    /\ sched = SchedulerNew(TradingHoursDefault)
    /\ risk = RiskStateNew(FALSE)
    /\ book = {}
    /\ ws = <<>>
    /\ reports = <<>>
    /\ listener = 0
    /\ nextId = 0
    /\ events = 0
    /\ fills = 0
    /\ client = KrakenClientNew
    /\ obs = NoObs

\* ChurnThrottleCheck::evaluate(context) with context.now = the clock
ChurnEvaluate ==
    /\ \E target \in ChurnTargets, inventory \in Inventories :
       \E r \in {ChurnThrottleCheck(risk,
                      RiskContext(market, target, inventory, clock, clock))} :
          /\ risk' = r.rs
          /\ obs' = [op |-> "churn_evaluate", target |-> target, now |-> clock,
                     before |-> risk.churn, reasons |-> r.reasons]
    /\ UNCHANGED <<client, clock, pc, strategy, market, signal, om, sched, book, ws, reports,
                   listener, nextId, events, fills>>

ChurnAdvance ==
    /\ events < MaxSteps
    /\ \E dt \in ChurnSteps : clock' = clock + dt
    /\ events' = events + 1
    /\ obs' = NoObs
    /\ UNCHANGED <<client, pc, strategy, market, signal, om, sched, risk, book, ws, reports,
                   listener, nextId, fills>>

NextChurn ==
    \/ ChurnEvaluate
    \/ ChurnAdvance

SpecChurn == InitChurn /\ [][NextChurn]_vars

(***************************************************************************)
(* QuoteScheduler alone: the policy list of main.rs decides on ticks whose *)
(* books stay and move, inside and outside the trading hours, while the    *)
(* report listener of MinIntervalPolicy observes reports; clock steps lie  *)
(* on both sides of min_interval and reach tob_max_stale                   *)
(***************************************************************************)
SchedSteps == {1, min_interval - 1, min_interval, tob_max_stale}

\* the reports the listener's receiver may yield
SchedReports ==
    {Report(type, 0, "Buy", 20, 4) : type \in {"Placed", "Accepted", "Cancel"}}

InitSched ==
    /\ clock = 0
    /\ pc = "sched"
    /\ strategy = "simple-mm"
    /\ market = MarketStateNew
    /\ signal = scenario_signals(strategy)
    /\ om = OrderManagerDefault
    /\ sched = SchedulerNew(TradingHoursDefault)
    /\ risk = RiskStateNew(FALSE)
    /\ book = {}
    /\ ws = <<>>
    /\ reports = <<>>
    /\ listener = 0
    /\ nextId = 0
    /\ events = 0
    /\ fills = 0
    /\ client = KrakenClientNew
    /\ obs = NoObs

\* one market event of the loop up to scheduler.decide(&ctx)
SchedTick ==
    /\ \E event \in MarketEvents, wall \in Walls :
       \E ms1 \in {on_market_event(market, event, clock)} :
       \E ctx \in {ScheduleContext(clock, ms1, om)} :
       \E d \in {decide(MainPolicies, sched, ctx, wall)} :
          /\ market' = ms1
          /\ sched' = d.st
          /\ obs' = [op |-> "decide", before |-> sched, now |-> clock,
                     wall |-> wall, market_state |-> ms1,
                     min_interval |-> MinIntervalPolicy(sched, ctx, wall).reason,
                     decision |-> d.decision]
    /\ UNCHANGED <<client, clock, pc, strategy, signal, om, risk, book, ws, reports,
                   listener, nextId, events, fills>>

\* the listener task of MinIntervalPolicy receives one report
SchedListener ==
    /\ \E report \in SchedReports :
          /\ sched' = min_interval_on_report(sched, report, clock)
          /\ obs' = [op |-> "listener", report |-> report, now |-> clock,
                     before |-> sched]
    /\ UNCHANGED <<client, clock, pc, strategy, market, signal, om, risk, book, ws, reports,
                   listener, nextId, events, fills>>

\* the policy lists a QuoteScheduler is built with: the list of main.rs and
\* a list with the stateful policy behind the others
PolicyLists ==
    {MainPolicies, <<"TradingHours", "MinInterval", "TopOfBookTickMove">>}

\* the order managers a context may refer to: no order, or a bid on its way
SchedManagers ==
    {OrderManagerDefault,
     [OrderManagerDefault EXCEPT !.bid_side.state = Placing(1, Quote(20, 4)),
                                 !.bid_side.last_update = Some(0)]}

\* the books of the feed and a book one tick above the first of them
SchedEvents == MarketEvents \cup {EvTopOfBook(22, 24)}

\* QuoteScheduler::decide with a policy list, on the market state as it is
\* or after a market event
SchedDecide ==
    /\ \E policies \in PolicyLists, manager \in SchedManagers, wall \in Walls,
          ms1 \in {market} \cup {on_market_event(market, e, clock) : e \in SchedEvents} :
       \E ctx \in {ScheduleContext(clock, ms1, manager)} :
       \E d \in {decide(policies, sched, ctx, wall)} :
          /\ market' = ms1
          /\ sched' = d.st
          /\ obs' = [op |-> "decide_list", policies |-> policies, before |-> sched,
                     ctx |-> ctx, wall |-> wall, decision |-> d.decision]
    /\ UNCHANGED <<client, clock, pc, strategy, signal, om, risk, book, ws, reports,
                   listener, nextId, events, fills>>

SchedAdvance ==
    /\ events < MaxSteps
    /\ \E dt \in SchedSteps : clock' = clock + dt
    /\ events' = events + 1
    /\ obs' = NoObs
    /\ UNCHANGED <<client, pc, strategy, market, signal, om, sched, risk, book, ws, reports,
                   listener, nextId, fills>>

NextSched ==
    \/ SchedTick
    \/ SchedDecide
    \/ SchedListener
    \/ SchedAdvance

SpecSched == InitSched /\ [][NextSched]_vars

(***************************************************************************)
(* TradingHoursPolicy alone: windows that are empty, plain and wrap past   *)
(* midnight, with and without the weekend pause, at every hour of working  *)
(* days and weekend days                                                   *)
(***************************************************************************)
StartHours == {0, 4, 8, 22}
EndHours == {4, 8, 20, 24}
Hours == 0..23
Weekdays == {"Fri", "Sat", "Sun", "Mon"}

HoursConfigs ==
    {[start_hour |-> s, end_hour |-> e, weekend_pause |-> w] :
        s \in StartHours, e \in EndHours, w \in BOOLEAN}

InitHours ==
    /\ clock = 0
    /\ pc = "hours"
    /\ strategy = "simple-mm"
    /\ market = MarketStateNew
    /\ signal = scenario_signals(strategy)
    /\ om = OrderManagerDefault
    /\ sched \in {SchedulerNew(th) : th \in HoursConfigs}
    /\ risk = RiskStateNew(FALSE)
    /\ book = {}
    /\ ws = <<>>
    /\ reports = <<>>
    /\ listener = 0
    /\ nextId = 0
    /\ events = 0
    /\ fills = 0
    /\ client = KrakenClientNew
    /\ obs = NoObs

\* TradingHoursPolicy::should_evaluate with Utc::now() = wall
HoursEvaluate ==
    /\ \E hour \in Hours, weekday \in Weekdays :
       \E wall \in {[hour |-> hour, weekday |-> weekday]} :
       \E r \in {TradingHoursPolicy(sched, ScheduleContext(clock, market, om), wall)} :
          /\ sched' = r.st
          /\ obs' = [op |-> "trading_hours", trading_hours |-> sched.trading_hours,
                     wall |-> wall, reason |-> r.reason]
    /\ UNCHANGED <<client, clock, pc, strategy, market, signal, om, risk, book, ws, reports,
                   listener, nextId, events, fills>>

NextHours == HoursEvaluate

SpecHours == InitHours /\ [][NextHours]_vars

(***************************************************************************)
(* The order report channel: senders fill the broadcast channel faster     *)
(* than the loop receives, so that the receiver lags, and drop the channel *)
(***************************************************************************)
\* the capacity of the order report channel, 10_000 in main.rs, scaled down
ChannelCapacity == 2
MaxSends == 4

\* the number of messages the receiver has missed and not yet been told of
Lag(q) == IF q # <<>> /\ Head(q).type = "Lagged" THEN Head(q).n ELSE 0

\* the messages the channel retains for the receiver
Retained(q) == IF Lag(q) > 0 THEN Tail(q) ELSE q

IsClosed(q) == q # <<>> /\ q[Len(q)] = RecvClosed

\* broadcast::Sender::send seen from one receiver: a full channel drops the
\* oldest retained message and the receiver's next recv is Lagged
broadcast_send(q, r) ==
    IF Len(Retained(q)) < ChannelCapacity
    THEN Append(q, r)
    ELSE <<RecvLagged(Lag(q) + 1)>> \o Tail(Retained(q)) \o <<r>>

\* the reports the venue and the websocket task may send
ChannelReports ==
    {Report(type, 1, "Buy", 20, 4) : type \in {"Placed", "Accepted"}}
    \cup {Report(type, 1, "Buy", 0, 0) : type \in {"Cancel", "Cancelled"}}

InitReports ==
    /\ clock = 0
    /\ pc = "running"
    /\ strategy = "simple-mm"
    /\ market = MarketStateNew
    /\ signal = scenario_signals(strategy)
    /\ om = OrderManagerDefault
    /\ sched = SchedulerNew(TradingHoursDefault)
    /\ risk = RiskStateNew(FALSE)
    /\ book = {}
    /\ ws = <<>>
    /\ reports = <<>>
    /\ listener = 0
    /\ nextId = 0
    /\ events = 0
    /\ fills = 0
    /\ client = KrakenClientNew
    /\ obs = NoObs

\* a sender of the order report channel sends one report
ReportsSend ==
    /\ events < MaxSends
    /\ ~IsClosed(reports)
    /\ \E r \in ChannelReports : reports' = broadcast_send(reports, r)
    /\ events' = events + 1
    /\ obs' = NoObs
    /\ UNCHANGED <<client, clock, pc, strategy, market, signal, om, sched, risk, book, ws,
                   listener, nextId, fills>>

\* the last sender of the channel is dropped
ReportsClose ==
    /\ ~IsClosed(reports)
    /\ reports' = Append(reports, RecvClosed)
    /\ obs' = NoObs
    /\ UNCHANGED <<client, clock, pc, strategy, market, signal, om, sched, risk, book, ws,
                   listener, nextId, events, fills>>

NextReports ==
    \/ ReportsSend
    \/ ReportsClose
    \/ OrderReport

SpecReports == InitReports /\ [][NextReports]_vars

(***************************************************************************)
(* MakerOnlyMeanReversionStrategy alone: books one and two ticks wide, a   *)
(* fast EMA below, at and above each entry threshold the code can form, a  *)
(* slow EMA inside, at and outside the trend deadband, and inventories     *)
(* that are flat, small and beyond max_exposure_in_quote on either side.   *)
(* Deviations are doubled prices, so a tick is 2 * price_tick.             *)
(***************************************************************************)
ReversionBids == {30, 40, 60}
ReversionSpreads == {price_tick, 2 * price_tick}

\* mid - ema, doubled: around 3, 6 and 12 ticks
ReversionDeviations ==
    LET t == 2 * price_tick
    IN  {0} \cup UNION {{m * t - 1, m * t, -(m * t - 1), -(m * t)} :
                            m \in {mr_entry_threshold_ticks,
                                   2 * mr_entry_threshold_ticks,
                                   4 * mr_entry_threshold_ticks}}

\* mid - ema_slow, doubled: inside, at and outside the deadband
ReversionTrends ==
    LET band == 2 * mr_trend_filter_ticks * price_tick
    IN  {0, band, band + 1, -band, -(band + 1)}

ReversionInventories ==
    {[base |-> b, quote |-> 1000] : b \in {0, 2, -2, 12, -12}}

\* the signals after updates that left the EMAs at fast and slow and read
\* mid last
ReversionSignal(fast, slow, mid) ==
    LET s == scenario_signals("mean-reversion")
        at(e, v) == [e EXCEPT !.value = Some(v), !.last_update = Some(0),
                              !.first_update = Some(0)]
    IN  [s EXCEPT !.ema_mid = at(s.ema_mid, fast),
                  !.ema_mid_slow = at(s.ema_mid_slow, slow),
                  !.last_ema_value = Some(fast),
                  !.last_ema_slow_value = Some(slow),
                  !.last_mid = Some(mid),
                  !.last_update = Some(0)]

InitReversion ==
    /\ clock = 0
    /\ pc = "reversion"
    /\ strategy = "mean-reversion"
    /\ \E bid \in ReversionBids, width \in ReversionSpreads :
          market = on_market_event(MarketStateNew, EvTopOfBook(bid, bid + width), 0)
    /\ \E dev \in ReversionDeviations, trend \in ReversionTrends :
          signal = ReversionSignal(Get(mid_price2(market)) - dev,
                                   Get(mid_price2(market)) - trend,
                                   Get(mid_price2(market)))
    /\ om = OrderManagerDefault
    /\ sched = SchedulerNew(TradingHoursDefault)
    /\ risk = RiskStateNew(FALSE)
    /\ book = {}
    /\ ws = <<>>
    /\ reports = <<>>
    /\ listener = 0
    /\ nextId = 0
    /\ events = 0
    /\ fills = 0
    /\ client = KrakenClientNew
    /\ obs = NoObs

\* MakerOnlyMeanReversionStrategy::compute_target
ReversionCompute ==
    /\ \E inventory \in ReversionInventories :
          obs' = [op |-> "mean_reversion", inventory |-> inventory,
                  result |-> mean_reversion_compute_target(market, signal, inventory)]
    /\ UNCHANGED <<client, clock, pc, strategy, market, signal, om, sched, risk, book, ws,
                   reports, listener, nextId, events, fills>>

NextReversion == ReversionCompute

SpecReversion == InitReversion /\ [][NextReversion]_vars

(***************************************************************************)
(* TradingRules::quantity_from_notional alone: notionals, prices that are  *)
(* negative, zero, positive fractions and not finite, and quantity steps   *)
(***************************************************************************)
MaxNotional == 12
MaxPriceNum == 7

QuantityPrices ==
    {Rat(n, d) : n \in -1..MaxPriceNum, d \in 1..3} \cup {PosInf, NegInf, NaN}

QuantitySteps == 1..3

InitQuantity ==
    /\ clock = 0
    /\ pc = "quantity"
    /\ strategy = "simple-mm"
    /\ market = MarketStateNew
    /\ signal = scenario_signals(strategy)
    /\ om = OrderManagerDefault
    /\ sched = SchedulerNew(TradingHoursDefault)
    /\ risk = RiskStateNew(FALSE)
    /\ book = {}
    /\ ws = <<>>
    /\ reports = <<>>
    /\ listener = 0
    /\ nextId = 0
    /\ events = 0
    /\ fills = 0
    /\ client = KrakenClientNew
    /\ \E notional \in 1..MaxNotional, price \in QuantityPrices, step \in QuantitySteps :
          obs = [op |-> "arguments", notional |-> notional, price |-> price,
                 step |-> step]

\* rules.quantity_from_notional(notional, price) with rules.quantity_step = step
QuantityCompute ==
    /\ obs.op = "arguments"
    /\ obs' = [op |-> "quantity_from_notional", notional |-> obs.notional,
               price |-> obs.price, step |-> obs.step,
               quantity |-> quantity_from_notional_of(obs.step, obs.notional,
                                                      obs.price)]
    /\ UNCHANGED <<client, clock, pc, strategy, market, signal, om, sched, risk, book, ws,
                   reports, listener, nextId, events, fills>>

NextQuantity == QuantityCompute

SpecQuantity == InitQuantity /\ [][NextQuantity]_vars

(***************************************************************************)
(* KrakenClient::next_nonce under concurrent callers: each caller reads    *)
(* the system clock, which may stand still or go back, then loops over     *)
(* load and compare_exchange                                               *)
(***************************************************************************)
MaxCalls == 3
MaxNow == 3

InitNonce ==
    /\ clock = 0
    /\ pc = "nonce"
    /\ strategy = "simple-mm"
    /\ market = MarketStateNew
    /\ signal = scenario_signals(strategy)
    /\ om = OrderManagerDefault
    /\ sched = SchedulerNew(TradingHoursDefault)
    /\ risk = RiskStateNew(FALSE)
    /\ book = {}
    /\ ws = <<>>
    /\ reports = <<>>
    /\ listener = 0
    /\ nextId = 0
    /\ events = 0
    /\ fills = 0
    /\ client = KrakenClientNew
    /\ obs = NoObs

\* a caller enters next_nonce and reads SystemTime::now()
NonceCall(c) ==
    /\ client.calls[c].pc = "idle"
    /\ events < MaxCalls
    /\ \E now_ms \in 0..MaxNow :
          client' = [client EXCEPT !.calls[c].pc = "load",
                                   !.calls[c].now_ms = now_ms,
                                   !.calls[c].failed = 0]
    /\ events' = events + 1
    /\ obs' = NoObs
    /\ UNCHANGED <<clock, pc, strategy, market, signal, om, sched, risk, book, ws,
                   reports, listener, nextId, fills>>

\* let prev = self.last_nonce.load(Ordering::Relaxed)
NonceLoad(c) ==
    /\ client.calls[c].pc = "load"
    /\ \E prev \in LoadValues(client, c) :
          client' = [client EXCEPT !.calls[c].pc = "cas",
                                   !.calls[c].prev = prev,
                                   !.calls[c].seen = prev]
    /\ obs' = NoObs
    /\ UNCHANGED <<clock, pc, strategy, market, signal, om, sched, risk, book, ws,
                   reports, listener, nextId, events, fills>>

\* NonceCompareExchange storing without comparing
NonceCompareExchange_store(c) ==
    /\ client.calls[c].pc = "cas"
    /\ \E next \in {next_nonce_value(client.calls[c].now_ms, client.calls[c].prev)} :
          client' = [client EXCEPT
                        !.last_nonce = next,
                        !.history = Append(@, next),
                        !.returned = Append(@, [nonce |-> next,
                                                now_ms |-> client.calls[c].now_ms]),
                        !.calls[c].pc = "idle",
                        !.calls[c].seen = next]
    /\ obs' = NoObs
    /\ UNCHANGED <<clock, pc, strategy, market, signal, om, sched, risk, book, ws,
                   reports, listener, nextId, events, fills>>

\* compare_exchange(prev, next, SeqCst, SeqCst): success returns next, failure
\* goes round the loop
NonceCompareExchange(c) ==
    /\ client.calls[c].pc = "cas"
    /\ \E next \in {next_nonce_value(client.calls[c].now_ms, client.calls[c].prev)} :
          client' = IF client.last_nonce = client.calls[c].prev
                    THEN [client EXCEPT
                             !.last_nonce = next,
                             !.history = Append(@, next),
                             !.returned = Append(@, [nonce |-> next,
                                                     now_ms |-> client.calls[c].now_ms]),
                             !.calls[c].pc = "idle",
                             !.calls[c].seen = next]
                    ELSE [client EXCEPT
                             !.calls[c].pc = "load",
                             !.calls[c].seen = client.last_nonce,
                             !.calls[c].failed = 1]
    /\ obs' = NoObs
    /\ UNCHANGED <<clock, pc, strategy, market, signal, om, sched, risk, book, ws,
                   reports, listener, nextId, events, fills>>

NextNonce ==
    \/ \E c \in Callers : NonceCall(c)
    \/ \E c \in Callers : NonceLoad(c)
    \/ \E c \in Callers : NonceCompareExchange(c)

SpecNonce == InitNonce /\ [][NextNonce]_vars

(***************************************************************************)
(* The event loop under fair scheduling: the loop receives every report    *)
(* that is in the channel, the listener and websocket tasks run and time   *)
(* passes; the market feed may stop at any moment and no order is filled   *)
(***************************************************************************)
MaxLiveClock == 4000

LiveEvents == {EvTopOfBook(20, 22)}

LiveWalls == {[hour |-> 12, weekday |-> "Mon"]}

InitLive ==
    /\ clock = 0
    /\ pc = "startup"
    /\ strategy \in StrategyKinds
    /\ market = MarketStateNew
    /\ signal = scenario_signals(strategy)
    /\ om = OrderManagerDefault
    /\ sched = SchedulerNew(TradingHoursDefault)
    /\ risk = RiskStateNew(FALSE)
    /\ book = {}
    /\ ws = <<>>
    /\ reports = <<>>
    /\ listener = 0
    /\ nextId = 0
    /\ events = 0
    /\ fills = 0
    /\ client = KrakenClientNew
    /\ obs = NoObs

LiveMarketEvent == MarketEventOf(LiveEvents, Inventories, LiveWalls, {0, StallMs})

LiveAdvance ==
    /\ pc = "running"
    /\ clock < MaxLiveClock
    /\ clock' = clock + AdvanceMs
    /\ obs' = NoObs
    /\ UNCHANGED <<client, pc, strategy, market, signal, om, sched, risk, book, ws, reports,
                   listener, nextId, events, fills>>

NextLive ==
    \/ Startup
    \/ LiveMarketEvent
    \/ OrderReport
    \/ ListenerPlaced
    \/ WsDeliver
    \/ LiveAdvance

\* tokio::select! polls its ready branches in random order and the spawned
\* tasks are scheduled by the runtime: a report in the channel is received, an
\* execution is forwarded, a Placed report reaches the listener
LiveFairness ==
    /\ WF_vars(Startup)
    /\ WF_vars(OrderReport)
    /\ WF_vars(ListenerPlaced)
    /\ WF_vars(WsDeliver)
    /\ WF_vars(LiveAdvance)

SpecLive == InitLive /\ [][NextLive]_vars /\ LiveFairness

(***************************************************************************)
(* SignalState alone: updates with and without a mid price, at instants on *)
(* both sides of min_update_interval and at instants before the last       *)
(* update                                                                  *)
(***************************************************************************)
MaxSignalUpdates == 3

SignalNows ==
    {0, signal_min_update_interval - 1, signal_min_update_interval,
     2 * signal_min_update_interval, 3 * signal_min_update_interval}

\* no market data yet, a trade but no book, and two books
SignalMarkets ==
    {MarketStateNew,
     on_market_event(MarketStateNew, EvTrade(21), 0),
     on_market_event(MarketStateNew, EvTopOfBook(20, 22), 0),
     on_market_event(MarketStateNew, EvTopOfBook(34, 36), 0)}

InitSignal ==
    /\ clock = 0
    /\ pc = "signal"
    /\ strategy \in StrategyKinds
    /\ market = MarketStateNew
    /\ signal = scenario_signals(strategy)
    /\ om = OrderManagerDefault
    /\ sched = SchedulerNew(TradingHoursDefault)
    /\ risk = RiskStateNew(FALSE)
    /\ book = {}
    /\ ws = <<>>
    /\ reports = <<>>
    /\ listener = 0
    /\ nextId = 0
    /\ events = 0
    /\ fills = 0
    /\ client = KrakenClientNew
    /\ obs = NoObs

\* signal_state.update(&market_state, now)
SignalUpdate ==
    /\ events < MaxSignalUpdates
    /\ \E ms \in SignalMarkets, now \in SignalNows :
          /\ signal' = signal_update(signal, ms, now)
          /\ market' = ms
          /\ clock' = now
          /\ obs' = [op |-> "signal_update", before |-> signal, now |-> now,
                     mid |-> mid_price2(ms)]
    /\ events' = events + 1
    /\ UNCHANGED <<client, pc, strategy, om, sched, risk, book, ws, reports, listener,
                   nextId, fills>>

NextSignal == SignalUpdate

SpecSignal == InitSignal /\ [][NextSignal]_vars

(***************************************************************************)
(* The strategies on books on and off the tick grid                        *)
(***************************************************************************)
MinBid == 19
MaxAsk == 25

StrategyBooks ==
    {EvTopOfBook(b, a) : b \in MinBid..MaxAsk, a \in MinBid..MaxAsk}

InitStrategy ==
    /\ clock = 0
    /\ pc = "strategy"
    /\ strategy \in StrategyKinds
    /\ market = MarketStateNew
    /\ signal = scenario_signals(strategy)
    /\ om = OrderManagerDefault
    /\ sched = SchedulerNew(TradingHoursDefault)
    /\ risk = RiskStateNew(FALSE)
    /\ book = {}
    /\ ws = <<>>
    /\ reports = <<>>
    /\ listener = 0
    /\ nextId = 0
    /\ events = 0
    /\ fills = 0
    /\ client = KrakenClientNew
    /\ obs = NoObs

\* a market event reaches the market state and the signals
StrategyMarket ==
    /\ events < MaxEvents
    /\ \E event \in StrategyBooks, dt \in {0, AdvanceMs} :
          /\ event.best_bid < event.best_ask
          /\ clock' = clock + dt
          /\ market' = on_market_event(market, event, clock')
          /\ signal' = signal_update(signal, market', clock')
    /\ events' = events + 1
    /\ obs' = NoObs
    /\ UNCHANGED <<client, pc, strategy, om, sched, risk, book, ws, reports, listener, nextId,
                   fills>>

StrategyCompute ==
    /\ \E inventory \in Inventories :
          obs' = [op |-> "compute_target", inventory |-> inventory,
                  result |-> compute_target(strategy, market, signal, inventory)]
    /\ UNCHANGED <<client, clock, pc, strategy, market, signal, om, sched, risk, book, ws,
                   reports, listener, nextId, events, fills>>

NextStrategy ==
    \/ StrategyMarket
    \/ StrategyCompute

SpecStrategy == InitStrategy /\ [][NextStrategy]_vars

(***************************************************************************)
(* Properties of the event loop                                            *)
(***************************************************************************)
OpenOn(side) == {o \in book : o.side = side}

IsPlaceOrCancel(a) == a.action \in {"Place", "Cancel"}

HasPlaceOrCancel(actions) == \E i \in 1..Len(actions) : IsPlaceOrCancel(actions[i])

HasPlace(actions) == \E i \in 1..Len(actions) : actions[i].action = "Place"

HasCancelAll(actions) == \E i \in 1..Len(actions) : actions[i] = ActCancelAll

HasReason(reasons, r) == \E i \in 1..Len(reasons) : reasons[i] = r

\* C1: on each side at most one order placed by the engine is open on the
\* venue, in every interleaving of ticks, reports and venue outcomes.
C1_OneOpenOrderPerSide ==
    \A side \in Sides : Cardinality(OpenOn(side)) <= 1

\* C2: the loop hands a Place or a Cancel to the venue only when no side is
\* Placing or Cancelling, the pass that hands one over leaves a side Placing
\* or Cancelling, and a side leaves Placing or Cancelling only in the step
\* that processes an order report.
C2_NothingEmittedWhileInFlight ==
    [][ /\ (obs'.op = "tick" /\ HasPlaceOrCancel(obs'.executed))
             => (~has_inflight_actions(om) /\ has_inflight_actions(om'))
        /\ (has_inflight_actions(om) /\ om' # om)
             => (reports # <<>> /\ reports' = Tail(reports)) ]_vars

\* a pass that placed an order is followed by a pass that met the order still
\* in flight
C2_Witness ==
    /\ obs.op = "tick"
    /\ obs.inflight
    /\ has_inflight_actions(om)
    /\ book # {}

\* C11: a pass of the loop that ends in a scheduler Skip, a strategy
\* NoQuoteReason or a risk Hold hands nothing to the venue and leaves both
\* sides of the order manager, the venue's book and the report queues as they
\* were.
C11_NoOpTickLeavesOrdersAlone ==
    [][ (obs'.op = "tick" /\ obs'.result \in {"skip", "noquote", "hold"})
           => /\ obs'.executed = <<>>
              /\ om' = om
              /\ book' = book
              /\ ws' = ws
              /\ reports' = reports ]_vars

\* a Hold met while an order rests on the venue
C11_Witness ==
    /\ obs.op = "tick"
    /\ obs.result = "hold"
    /\ has_live_orders(om)
    /\ book # {}

\* C3: a pass of the loop that calls decide while an action is in flight gets
\* Skip(InFlight), whatever the book, the clocks and the other policies say.
C3_InFlightSkips ==
    (obs.op = "tick" /\ obs.inflight) => obs.decision = Skip("InFlight")

\* in flight on a moved book, after the quiet period of the other policies
C3_Witness ==
    /\ obs.op = "tick"
    /\ obs.inflight
    /\ clock >= AdvanceMs
    /\ market.best_bid # Some(20)

\* C8: a pass whose risk evaluation finds the market data stale or the book
\* crossed or invalid is rejected, hands CancelAll to the venue and places
\* nothing.
C8_StaleOrCrossedCancelsAll ==
    (obs.op = "tick"
       /\ (HasReason(obs.reasons, "MarketDataStale")
             \/ HasReason(obs.reasons, "CrossedOrInvalidBook")))
    => /\ obs.result = "rejected"
       /\ HasCancelAll(obs.executed)
       /\ ~HasPlace(obs.executed)

\* stale data met with an order open on the venue, which CancelAll removed
C8_Witness ==
    /\ obs.op = "tick"
    /\ HasReason(obs.reasons, "MarketDataStale")
    /\ obs.result = "rejected"
    /\ book = {}
    /\ ws # <<>>
    /\ ws[Len(ws)].type = "Cancelled"

(***************************************************************************)
(* Properties of OrderSideManager                                          *)
(***************************************************************************)
CarriesId(m, id) == m.state.kind # "NoOrder" /\ m.state.order_id = id

\* C4: a side that is Placing, Live or Cancelling with order id X and gets a
\* Filled, Cancelled or Rejected report of its own side with id X ends in
\* NoOrder with last_update None.
C4_TerminalReportClears ==
    (obs.op = "on_report"
       /\ obs.report.type \in {"Filled", "Cancelled", "Rejected"}
       /\ CarriesId(obs.before, obs.report.order_id))
    => /\ SideOf(om, obs.report.side).state = NoOrder
       /\ SideOf(om, obs.report.side).last_update = None

\* a fill that overtakes the cancel of an order whose last_update was set
C4_Witness ==
    /\ obs.op = "on_report"
    /\ obs.report.type = "Filled"
    /\ obs.before.state.kind = "Cancelling"
    /\ obs.before.state.order_id = obs.report.order_id
    /\ obs.before.last_update # None

\* C5: a Placed, Accepted, Rejected, Cancel, Cancelled, PartiallyFilled or
\* Filled report whose order id is not the id the side's state carries
\* leaves the side as it was.
C5_MismatchedReportIgnored ==
    (obs.op = "on_report"
       /\ obs.report.type \in {"Placed", "Accepted", "Rejected", "Cancel", "Cancelled",
                               "PartiallyFilled", "Filled"}
       /\ ~CarriesId(obs.before, obs.report.order_id))
    => SideOf(om, obs.report.side) = obs.before

\* C6: a Replace plan yields exactly two actions in this order: the Cancel of
\* the old order id, then the Place of a post-only limit order with the new
\* id at the desired price and quantity.
C6_ReplaceIsCancelThenPlace ==
    (obs.op = "actions_for_target" /\ obs.plan.plan = "Replace")
    => obs.actions =
         <<[action |-> "Cancel", order_id |-> obs.before.state.order_id, side |-> "Buy"],
           [action |-> "Place", order_id |-> obs.new_id, side |-> "Buy",
            price |-> Get(obs.target).price, quantity |-> Get(obs.target).quantity,
            order_type |-> "PostOnlyLimit"]>>

\* a live order replaced by one at another price under a fresh id
C6_Witness ==
    /\ obs.op = "actions_for_target"
    /\ obs.plan.plan = "Replace"
    /\ obs.before.state.kind = "Live"
    /\ obs.before.state.order_id # obs.new_id
    /\ obs.before.state.resting.price # Get(obs.target).price

(***************************************************************************)
(* Properties of one side manager around the replace policy                *)
(***************************************************************************)
IsTargetCall == obs.op = "actions_for_target"

\* the min_lifetime guard: last_update is set and less than min_lifetime old
WithinLifetime(m, now) ==
    IsSome(m.last_update) /\ now - Get(m.last_update) < min_lifetime

\* round(price / tick), halves rounded up
RoundedTicks(price) == (2 * price + price_tick) \div (2 * price_tick)

QuoteChanged(current, desired) ==
    \/ Abs(current.quantity - desired.quantity) > quantity_epsilon
    \/ Abs(RoundedTicks(current.price) - RoundedTicks(desired.price))
          >= replace_threshold_ticks

\* C12: plan follows the plan matrix: NoOrder without a target gives NoAction
\* and with a target Place of the fresh id; Placing and Cancelling give
\* WaitForVenue; Live without a target gives Cancel of the live id, and with
\* a target Replace of the live id by the fresh id when is_stale holds and
\* NoAction otherwise.
C12_PlanMatrix ==
    IsTargetCall =>
       LET st == obs.before.state
           t == obs.target
       IN  CASE st.kind = "NoOrder" /\ ~IsSome(t) -> obs.plan = PlanNoAction
             [] st.kind = "NoOrder" /\ IsSome(t) ->
                   obs.plan = PlanPlace(obs.new_id, Get(t))
             [] st.kind \in {"Placing", "Cancelling"} -> obs.plan = PlanWaitForVenue
             [] st.kind = "Live" /\ ~IsSome(t) -> obs.plan = PlanCancel(st.order_id)
             [] st.kind = "Live" /\ IsSome(t) ->
                   IF Get(obs.stale)
                   THEN obs.plan = PlanReplace(st.order_id, obs.new_id, Get(t))
                   ELSE obs.plan = PlanNoAction

\* a Live order without a target is cancelled
C12_Witness ==
    /\ IsTargetCall
    /\ obs.before.state.kind = "Live"
    /\ ~IsSome(obs.target)
    /\ obs.plan.plan = "Cancel"

\* C13: a Replace planned on a Live side leaves the side Placing the new id
\* with the desired quote, the new id differs from the old one, last_update
\* is the instant of the call, and the side is not Cancelling the old id.
C13_ReplaceGoesToPlacing ==
    (IsTargetCall /\ obs.plan.plan = "Replace" /\ obs.before.state.kind = "Live")
    => /\ om.bid_side.state = Placing(obs.new_id, Get(obs.target))
       /\ obs.new_id # obs.before.state.order_id
       /\ om.bid_side.last_update = Some(obs.now)
       /\ om.bid_side.state.kind # "Cancelling"

\* a Replace of an order whose last update is older than the call
C13_Witness ==
    /\ IsTargetCall
    /\ obs.plan.plan = "Replace"
    /\ obs.before.state.kind = "Live"
    /\ obs.before.last_update # Some(obs.now)
    /\ obs.before.state.resting # Get(obs.target)

\* C14: a Place planned from NoOrder leaves the side Placing the new id with
\* the desired quote, a Cancel planned from Live leaves it Cancelling the same
\* id and resting quote, both with last_update at the instant of the call,
\* and the one action emitted carries the id of the new state.
C14_OptimisticPlaceAndCancel ==
    IsTargetCall =>
       /\ obs.plan.plan = "Place" =>
             /\ obs.before.state.kind = "NoOrder"
             /\ om.bid_side.state = Placing(obs.new_id, Get(obs.target))
             /\ om.bid_side.last_update = Some(obs.now)
             /\ obs.actions = <<ActPlace(om.bid_side.state.order_id, "Buy",
                                         Get(obs.target).price,
                                         Get(obs.target).quantity)>>
       /\ obs.plan.plan = "Cancel" =>
             /\ obs.before.state.kind = "Live"
             /\ om.bid_side.state = Cancelling(obs.before.state.order_id,
                                               obs.before.state.resting)
             /\ om.bid_side.last_update = Some(obs.now)
             /\ obs.actions = <<ActCancel(om.bid_side.state.order_id, "Buy")>>

\* a Cancel of a Live order whose last update is older than the call
C14_Witness ==
    /\ IsTargetCall
    /\ obs.plan.plan = "Cancel"
    /\ om.bid_side.state.kind = "Cancelling"
    /\ obs.before.last_update # Some(obs.now)

\* is_stale was called on a side whose last update is exactly min_lifetime old
AtLifetime ==
    /\ IsTargetCall
    /\ IsSome(obs.stale)
    /\ IsSome(obs.before.last_update)
    /\ obs.now - Get(obs.before.last_update) = min_lifetime

\* C15: for a Live side whose last update is exactly min_lifetime old,
\* is_stale returns false.
C15_StaleFalseAtLifetime ==
    AtLifetime => Get(obs.stale) = FALSE

\* C15, amended: for a Live side whose last update is exactly min_lifetime
\* old the guard is open: is_stale returns true when the quantities differ by
\* more than the epsilon or the prices by at least replace_threshold_ticks
\* ticks, and false otherwise.
C15_GuardOpenAtLifetime ==
    AtLifetime =>
       Get(obs.stale) = QuoteChanged(obs.before.state.resting, Get(obs.target))

\* an order exactly min_lifetime old is replaced
C15_Witness ==
    /\ AtLifetime
    /\ Get(obs.stale)
    /\ obs.plan.plan = "Replace"

\* C16: for a Live side whose last update is less than min_lifetime old,
\* actions_for_target with any quote plans NoAction, emits nothing and leaves
\* the state and last_update as they were.
C16_NoReplaceWithinLifetime ==
    (/\ IsTargetCall
     /\ obs.before.state.kind = "Live"
     /\ IsSome(obs.target)
     /\ WithinLifetime(obs.before, obs.now))
    => /\ obs.stale = Some(FALSE)
       /\ obs.plan = PlanNoAction
       /\ obs.actions = <<>>
       /\ om.bid_side = obs.before

\* one millisecond short of min_lifetime after a partial fill, with a target
\* that moved by the threshold and changed its quantity
C16_Witness ==
    /\ IsTargetCall
    /\ obs.before.state.kind = "Live"
    /\ IsSome(obs.target)
    /\ obs.now - Get(obs.before.last_update) = min_lifetime - 1
    /\ obs.before.state.resting.quantity < 4
    /\ QuoteChanged(obs.before.state.resting, Get(obs.target))
    /\ Get(obs.target).price = 26

\* C17: when the min_lifetime guard does not apply, is_stale is true exactly
\* when the quantities differ by more than the epsilon or the rounded tick
\* counts differ by at least replace_threshold_ticks, and the plan is a
\* Replace exactly then.
C17_StaleIffChanged ==
    (IsTargetCall /\ IsSome(obs.stale) /\ ~WithinLifetime(obs.before, obs.now))
    => /\ Get(obs.stale) = QuoteChanged(obs.before.state.resting, Get(obs.target))
       /\ (obs.plan.plan = "Replace") = Get(obs.stale)

\* a price exactly replace_threshold_ticks ticks away, same quantity
C17_Witness ==
    /\ IsTargetCall
    /\ IsSome(obs.stale)
    /\ ~WithinLifetime(obs.before, obs.now)
    /\ obs.before.state.resting.quantity = Get(obs.target).quantity
    /\ Abs(RoundedTicks(obs.before.state.resting.price)
           - RoundedTicks(Get(obs.target).price)) = replace_threshold_ticks
    /\ obs.plan.plan = "Replace"

\* C18: a PartiallyFilled report for the id of the Live order keeps the side
\* Live with that id and price, leaves max(0, resting - fill) resting and
\* stamps last_update; on a side that is not Live, or for another id, it
\* changes nothing.
C18_PartialFill ==
    (obs.op = "on_report" /\ obs.report.type = "PartiallyFilled")
    => IF /\ obs.before.state.kind = "Live"
          /\ obs.before.state.order_id = obs.report.order_id
       THEN /\ om.bid_side.state =
                  Live(obs.before.state.order_id,
                       Quote(obs.before.state.resting.price,
                             IF obs.before.state.resting.quantity > obs.report.quantity
                             THEN obs.before.state.resting.quantity - obs.report.quantity
                             ELSE 0))
            /\ om.bid_side.last_update = Some(obs.now)
       ELSE om.bid_side = obs.before

\* a partial fill of a Live order whose last update is older than the report
C18_Witness ==
    /\ obs.op = "on_report"
    /\ obs.report.type = "PartiallyFilled"
    /\ obs.before.state.kind = "Live"
    /\ obs.before.state.order_id = obs.report.order_id
    /\ obs.before.last_update # Some(obs.now)
    /\ om.bid_side.state.resting.quantity = 2

(***************************************************************************)
(* Properties of the churn throttle                                        *)
(***************************************************************************)
IsChurnCall == obs.op = "churn_evaluate"

\* the side of the target is present, its price is at least half a tick away
\* from the recorded price, and the record is younger than the interval
ShouldThrottle(quote, rec_price, rec_time) ==
    /\ IsSome(quote)
    /\ IsSome(rec_price)
    /\ 2 * Abs(Get(quote).price - Get(rec_price)) >= price_tick
    /\ IsSome(rec_time)
    /\ obs.now - Get(rec_time) < churn_min_update_interval

\* C19: a call of ChurnThrottleCheck.evaluate that returns an error leaves
\* the four fields of the check as they were, for one-sided and two-sided
\* targets.
C19_ThrottledCallKeepsState ==
    (IsChurnCall /\ obs.reasons # <<>>) => risk.churn = obs.before

\* C20: a side of the target is throttled exactly when it is present, its
\* price is at least max(tick/2, epsilon) away from the recorded price and the
\* record is younger than min_update_interval; a present side that changed
\* and is not throttled is recorded as the new time and price, and an absent
\* side gives no reason.
C20_ThrottleIffChangedTooSoon ==
    IsChurnCall =>
       LET b == obs.before
           bid_throttled == ShouldThrottle(obs.target.bid, b.last_bid_price,
                                           b.last_bid_update)
           ask_throttled == ShouldThrottle(obs.target.ask, b.last_ask_price,
                                           b.last_ask_update)
           bid_changed == /\ IsSome(obs.target.bid)
                          /\ b.last_bid_price # Some(Get(obs.target.bid).price)
           ask_changed == /\ IsSome(obs.target.ask)
                          /\ b.last_ask_price # Some(Get(obs.target.ask).price)
       IN  /\ HasReason(obs.reasons, "ChurnThrottleBid") = bid_throttled
           /\ HasReason(obs.reasons, "ChurnThrottleAsk") = ask_throttled
           /\ (bid_changed /\ ~bid_throttled) =>
                 /\ risk.churn.last_bid_update = Some(obs.now)
                 /\ risk.churn.last_bid_price = Some(Get(obs.target.bid).price)
           /\ (ask_changed /\ ~ask_throttled) =>
                 /\ risk.churn.last_ask_update = Some(obs.now)
                 /\ risk.churn.last_ask_price = Some(Get(obs.target.ask).price)

\* a changed bid proposed when the record is exactly min_update_interval old
\* passes and is recorded
C20_Witness ==
    /\ IsChurnCall
    /\ IsSome(obs.target.bid)
    /\ IsSome(obs.before.last_bid_price)
    /\ obs.before.last_bid_price # Some(Get(obs.target.bid).price)
    /\ obs.now - Get(obs.before.last_bid_update) = churn_min_update_interval
    /\ obs.reasons = <<>>
    /\ risk.churn.last_bid_update = Some(obs.now)

(***************************************************************************)
(* Properties of the strategies                                            *)
(***************************************************************************)
\* C7: a target either strategy returns never crosses the book: its bid is at
\* most best_ask - tick and its ask at least best_bid + tick, also when the
\* book is off the tick grid.
C7_TargetNeverCrosses ==
    (obs.op = "compute_target" /\ obs.result.ok)
    => LET t == obs.result.target
       IN  /\ IsSome(t.bid) => Get(t.bid).price <= Get(market.best_ask) - price_tick
           /\ IsSome(t.ask) => Get(t.ask).price >= Get(market.best_bid) + price_tick

(***************************************************************************)
(* Properties of the risk engine                                           *)
(***************************************************************************)
IsHard(r) == r \in HardReasons

\* C9: when the collected reasons hold a hard reason the decision is
\* Rejected with required_actions exactly [CancelAll], whatever soft reasons
\* stand beside it.
C9_HardReasonRejects ==
    (obs.op = "evaluate" /\ \E i \in 1..Len(obs.reasons) : IsHard(obs.reasons[i]))
    => /\ obs.decision.kind = "Rejected"
       /\ obs.decision.required_actions = <<ActCancelAll>>
       /\ obs.decision.reasons = obs.reasons

\* a hard reason collected after a soft one
C9_Witness ==
    /\ obs.op = "evaluate"
    /\ Len(obs.reasons) >= 2
    /\ ~IsHard(obs.reasons[1])
    /\ \E i \in 1..Len(obs.reasons) : IsHard(obs.reasons[i])

\* C10: the decision is Approved with the proposed target exactly when every
\* check returned Ok, Hold exactly when there is a reason and none is hard,
\* and otherwise Rejected; nothing else is returned.
C10_DecisionPartition ==
    obs.op = "evaluate"
    => /\ (obs.decision = Approved(obs.target))
            <=> (\A i \in 1..Len(obs.results) : obs.results[i] = "Ok")
       /\ (obs.decision.kind = "Hold")
            <=> (/\ obs.reasons # <<>>
                 /\ \A i \in 1..Len(obs.reasons) : ~IsHard(obs.reasons[i]))
       /\ (obs.decision.kind = "Rejected")
            <=> (\E i \in 1..Len(obs.reasons) : IsHard(obs.reasons[i]))
       /\ obs.decision.kind \in {"Approved", "Hold", "Rejected"}
       /\ obs.decision.kind = "Approved" => obs.decision = Approved(obs.target)

\* several checks failed, none with a hard reason
C10_Witness ==
    /\ obs.op = "evaluate"
    /\ obs.decision.kind = "Hold"
    /\ Cardinality({i \in 1..Len(obs.results) : obs.results[i] = "Err"}) >= 2

(***************************************************************************)
(* The scheduler's policies                                                *)
(***************************************************************************)
IsDecide == obs.op = "decide"

\* C21: the reference prices and the last-evaluation time of
\* TopOfBookTickMovePolicy change only on ticks where decide returns Evaluate:
\* after a tick that decide skipped they are what they were before it
C21_ReferenceChangesOnlyOnEvaluate ==
    IsDecide /\ obs.decision # Evaluate => sched.tob = obs.before.tob

\* C23: MinIntervalPolicy skips with TooSoon exactly when a Placed report has
\* been observed less than min_interval before ctx.now, so never before the
\* first Placed report; its timestamp changes only in a step of the report
\* listener on a Placed report, which sets it to the instant of that step,
\* and never in decide
C23_TooSoonIffPlacedWithinInterval ==
    [][/\ obs'.op = "decide" =>
            /\ obs'.min_interval = Some("TooSoon")
                 <=> /\ sched.last_order # None
                     /\ clock - Get(sched.last_order) < min_interval
            /\ sched'.last_order = sched.last_order
       /\ sched'.last_order # sched.last_order =>
            /\ obs'.op = "listener"
            /\ obs'.report.type = "Placed"
            /\ sched'.last_order = Some(clock)
       /\ obs'.op = "listener" /\ obs'.report.type # "Placed" =>
            sched'.last_order = sched.last_order]_vars

\* a tick exactly min_interval after the last Placed report, which the
\* policy lets through
C23_Witness ==
    /\ IsDecide
    /\ obs.min_interval = None
    /\ obs.before.last_order # None
    /\ obs.now - Get(obs.before.last_order) = min_interval


\* the hours of the day at which a window is active
ActiveHours(th) ==
    IF th.start_hour <= th.end_hour
    THEN {h \in Hours : th.start_hour <= h /\ h < th.end_hour}
    ELSE {h \in Hours : h >= th.start_hour} \cup {h \in Hours : h < th.end_hour}

IsHoursCall == obs.op = "trading_hours"

IsWeekend(wall) == wall.weekday \in {"Sat", "Sun"}

\* C22: TradingHoursPolicy lets hour h through exactly when h lies in
\* [start, end) for start <= end and in [start, 24) or [0, end) for
\* start > end, so that 22..4 is active at 22, 23, 0, 1, 2 and 3; with
\* weekend_pause every Saturday and Sunday hour gives Skip(WeekendPause)
C22_WindowAndWeekendPause ==
    IsHoursCall =>
        LET th == obs.trading_hours
        IN  /\ th.weekend_pause /\ IsWeekend(obs.wall) =>
                 obs.reason = Some("WeekendPause")
            /\ ~(th.weekend_pause /\ IsWeekend(obs.wall)) =>
                 /\ obs.reason = None <=> obs.wall.hour \in ActiveHours(th)
                 /\ obs.reason # None => obs.reason = Some("OutOfTradingHours")
            /\ th.start_hour = 22 /\ th.end_hour = 4 /\ ~th.weekend_pause =>
                 (obs.reason = None <=> obs.wall.hour \in {22, 23, 0, 1, 2, 3})

\* the last active hour of a window that wraps past midnight, on a weekend
\* day without the pause
C22_Witness ==
    /\ IsHoursCall
    /\ obs.trading_hours = [start_hour |-> 22, end_hour |-> 4, weekend_pause |-> FALSE]
    /\ obs.wall = [hour |-> 3, weekday |-> "Sat"]
    /\ obs.reason = None


(***************************************************************************)
(* Startup and the order report channel                                    *)
(***************************************************************************)
\* C24: the first thing executed on the venue is the startup action, which
\* is CancelAll alone and is executed once; until it has completed the loop
\* consumes no market event and no report, generates no order id and the
\* venue holds no order of the engine, so no Place or Cancel precedes it
C24_StartupCancelAllFirst ==
    [][/\ pc = "startup" =>
            /\ events = 0 /\ nextId = 0 /\ book = {} /\ reports = <<>>
            /\ om' = om /\ events' = events /\ nextId' = nextId
            /\ obs'.op \in {"startup", "none"}
            /\ pc' # pc =>
                 /\ pc' = "running"
                 /\ obs' = [op |-> "startup", executed |-> <<ActCancelAll>>]
                 /\ reports' \in {<<RepCancelledAll>>, <<RepVenueError>>}
                 /\ book' = {}
       /\ pc # "startup" => pc' # "startup" /\ obs'.op # "startup"]_vars

\* the loop is about to start and the report of the startup CancelAll waits
\* in the channel
C24_Witness ==
    /\ obs.op = "startup"
    /\ pc = "running"
    /\ reports = <<RepCancelledAll>>
    /\ events = 0


\* a step in which the loop receives from the order report channel
IsRecv == pc = "running" /\ reports # <<>> /\ reports' = Tail(reports)

\* C25: receiving Lagged(n) leaves the order manager, the scheduler and the
\* risk state as they are and the loop goes on; receiving Closed ends the
\* loop; nothing else received from the channel, and no other step, ends it
C25_LaggedContinuesClosedStops ==
    [][/\ IsRecv /\ Head(reports).type = "Lagged" =>
            om' = om /\ sched' = sched /\ risk' = risk /\ pc' = "running"
       /\ IsRecv /\ Head(reports).type = "Closed" => pc' = "stopped"
       /\ pc' # pc => IsRecv /\ Head(reports).type = "Closed"]_vars

\* the loop has received Lagged with an order known to the order manager
\* and runs on with reports left to receive
C25_Witness ==
    /\ obs.op = "recv_error"
    /\ obs.error.type = "Lagged"
    /\ pc = "running"
    /\ reports # <<>>
    /\ om # OrderManagerDefault


\* the loop receives the Rejected report of a place the venue refused
IsRecvRejected == IsRecv /\ Head(reports).type = "Rejected"

\* C26: the venue refusing a place is reported as Placed, then Rejected, of
\* that order_id; when the loop has processed both, the side that placed the
\* order is NoOrder with last_update None and the loop runs on
C26_RejectedPlaceClearsSide ==
    [][IsRecvRejected =>
          /\ SideOf(om', Head(reports).side).state = NoOrder
          /\ SideOf(om', Head(reports).side).last_update = None
          /\ pc' = "running"]_vars


(***************************************************************************)
(* The mean-reversion strategy                                             *)
(***************************************************************************)
IsReversionCall == obs.op = "mean_reversion"

\* mid - ema and mid - ema_slow of the state the strategy reads, doubled
Deviation2 == Get(mid_price2(market)) - Get(ema_mid(signal))
Trend2 ==
    Get(mid_price2(market))
    - (IF IsSome(ema_mid_slow(signal)) THEN Get(ema_mid_slow(signal))
       ELSE Get(ema_mid(signal)))

IsBelow(result) == ~result.ok /\ result.reason = "BelowEntryThreshold"
AskOnly(result) == result.ok /\ result.target.bid = None /\ result.target.ask # None
BidOnly(result) == result.ok /\ result.target.ask = None /\ result.target.bid # None
SizingAndPostOnlyPass(result) ==
    result.ok \/ result.reason \notin {"InvalidQuantity", "WouldCrossPostOnly"}

ExposureNorm2(inventory) ==
    Max(-(2 * max_exposure_in_quote),
        Min(2 * max_exposure_in_quote, inventory.base * Get(mid_price2(market))))

\* the trade the deviation asks for goes against the slow trend
IsCounterTrend ==
    IF Deviation2 > 0
    THEN Trend2 > 2 * mr_trend_filter_ticks * price_tick
    ELSE Trend2 < -(2 * mr_trend_filter_ticks * price_tick)

\* the inventory already leans the way of the trade
IsPenalised(inventory) ==
    IF Deviation2 > 0 THEN ExposureNorm2(inventory) < 0
    ELSE ExposureNorm2(inventory) > 0

\* threshold_ticks of the call, times 2 * max_exposure_in_quote
ThresholdTicksScaled(inventory) ==
    mr_entry_threshold_ticks
    * (IF IsCounterTrend THEN mr_counter_trend_multiplier ELSE 1)
    * (IF IsPenalised(inventory)
       THEN 2 * max_exposure_in_quote
            + Abs(ExposureNorm2(inventory)) * mr_inventory_penalty
       ELSE 2 * max_exposure_in_quote)

IsTooShort(inventory) ==
    inventory.base * Get(ema_mid(signal)) < -(2 * max_exposure_in_quote)
IsTooLong(inventory) ==
    inventory.base * Get(ema_mid(signal)) > 2 * max_exposure_in_quote

\* C28: with a positive deviation and inventory.base * ema below
\* -max_exposure_quote a call that passes the entry threshold and sizing
\* answers TooShortExposure, with a negative deviation and
\* inventory.base * ema above max_exposure_quote it answers TooLongExposure;
\* no target has an ask while too short or a bid while too long
C28_ExposureGate ==
    IsReversionCall /\ SizingAndPostOnlyPass(obs.result) =>
        /\ Deviation2 > 0 /\ IsTooShort(obs.inventory) /\ ~IsBelow(obs.result) =>
             ~obs.result.ok /\ obs.result.reason = "TooShortExposure"
        /\ Deviation2 < 0 /\ IsTooLong(obs.inventory) /\ ~IsBelow(obs.result) =>
             ~obs.result.ok /\ obs.result.reason = "TooLongExposure"
        /\ IsTooShort(obs.inventory) /\ obs.result.ok => obs.result.target.ask = None
        /\ IsTooLong(obs.inventory) /\ obs.result.ok => obs.result.target.bid = None


(***************************************************************************)
(* Sizing                                                                  *)
(***************************************************************************)
IsQuantityCall == obs.op = "quantity_from_notional"

PreviousNonce(i) == IF i = 1 THEN 0 ELSE client.returned[i - 1].nonce

\* C30: whatever the callers' clocks read and however their calls
\* interleave, every nonce returned is greater than every nonce returned
\* before it, so all are distinct, and each is the now_ms of its call when
\* that exceeds the nonce before it and that nonce plus one otherwise
C30_NoncesStrictlyIncrease ==
    \A i \in 1..Len(client.returned) :
        /\ \A j \in 1..(i - 1) : client.returned[j].nonce < client.returned[i].nonce
        /\ client.returned[i].nonce =
             IF client.returned[i].now_ms > PreviousNonce(i)
             THEN client.returned[i].now_ms
             ELSE PreviousNonce(i) + 1

\* two callers read the same clock value, one lost the compare-exchange and
\* went round the loop, and a later call read an earlier clock value
C30_Witness ==
    /\ Len(client.returned) = MaxCalls
    /\ client.returned[1].now_ms = client.returned[2].now_ms
    /\ client.returned[3].now_ms < client.returned[1].now_ms
    /\ \E c \in Callers : client.calls[c].failed = 1 /\ client.calls[c].pc = "idle"


(***************************************************************************)
(* In-flight sides and stale market data under fair scheduling             *)
(***************************************************************************)
\* C31: with every report delivered and every Place answered by Accepted or
\* Rejected, every Cancel by Cancelled, CancelFailed or VenueError, a side
\* that is Placing or Cancelling eventually leaves that state, so
\* has_inflight_actions() eventually becomes false
C31_InflightEventuallyClears ==
    has_inflight_actions(om) ~> ~has_inflight_actions(om)

\* C32: when the last market event is older than max_staleness while a side
\* holds a Live order, a pass of the loop eventually finds MarketDataStale
\* and executes CancelAll
C32_StaleDataCancelsAll ==
    (has_live_orders(om) /\ market_is_stale(market, max_staleness, clock))
        ~> (/\ obs.op = "tick"
            /\ HasReason(obs.reasons, "MarketDataStale")
            /\ HasCancelAll(obs.executed))


(***************************************************************************)
(* RiskEngine::evaluate runs every check                                   *)
(***************************************************************************)
IsEvaluate == obs.op = "evaluate"

\* what check i of the call returns by itself: a check reads and writes its
\* own state only, and a list names a check once
OwnReasons(i) == check_evaluate(obs.checks[i], obs.before, obs.ctx).reasons

RECURSIVE ReasonsFrom(_)
ReasonsFrom(i) ==
    IF i > Len(obs.checks) THEN <<>> ELSE OwnReasons(i) \o ReasonsFrom(i + 1)

DecisionReasons == IF obs.decision.kind = "Approved" THEN <<>> ELSE obs.decision.reasons

HasCheck(name) == \E i \in 1..Len(obs.checks) : obs.checks[i] = name

\* C33: evaluate invokes every check once, in list order, whatever the
\* earlier checks returned; the decision's reasons are the checks' reasons
\* concatenated in that order; the ChurnThrottleCheck of the list is
\* evaluated and leaves its state behind whatever the decision is.
C33_EveryCheckRuns ==
    IsEvaluate
    => /\ Len(obs.results) = Len(obs.checks)
       /\ \A i \in 1..Len(obs.checks) : (obs.results[i] = "Err") <=> (OwnReasons(i) # <<>>)
       /\ DecisionReasons = ReasonsFrom(1)
       /\ risk = IF HasCheck("ChurnThrottle")
                 THEN ChurnThrottleCheck(obs.before, obs.ctx).rs
                 ELSE obs.before

\* a call that ends in Rejected because the first check failed, in which the
\* churn throttle, fourth in the list, recorded a new time and price
C33_Witness ==
    /\ IsEvaluate
    /\ obs.decision.kind = "Rejected"
    /\ obs.checks = MainChecks
    /\ obs.results[1] = "Err"
    /\ risk.churn # obs.before.churn
    /\ Len(obs.decision.reasons) >= 2


(***************************************************************************)
(* QuoteScheduler::decide stops at the first skip                          *)
(***************************************************************************)
IsDecideList == obs.op = "decide_list"

\* what policy i of the list answers by itself: a policy reads and writes
\* its own state only, and a list names a policy once
PolicyReason(i) ==
    should_evaluate(obs.policies[i], obs.before, obs.ctx, obs.wall).reason

Skipping == {i \in 1..Len(obs.policies) : IsSome(PolicyReason(i))}

FirstSkipping == CHOOSE i \in Skipping : \A j \in Skipping : i <= j

\* the policies the call invokes: all of them, or those up to the first skip
Invoked ==
    IF Skipping = {} THEN 1..Len(obs.policies) ELSE 1..FirstSkipping

\* C34: decide asks its policies in list order and returns Skip with the
\* reason of the first policy that gives one; the policies behind it are not
\* invoked, so their state is as before the call, while every policy up to
\* it has been invoked; decide returns Evaluate exactly when no policy gives
\* a reason.
C34_FirstSkipShortCircuits ==
    IsDecideList
    => /\ (obs.decision = Evaluate) <=> (Skipping = {})
       /\ Skipping # {} => obs.decision = Skip(Get(PolicyReason(FirstSkipping)))
       /\ sched = IF \E i \in Invoked : obs.policies[i] = "TopOfBookTickMove"
                  THEN TopOfBookTickMovePolicy(obs.before, obs.ctx, obs.wall).st
                  ELSE obs.before

\* InFlight skips at the head of the main list while the book has moved from
\* the reference of the tick-move policy, which is left as it was
C34_Witness ==
    /\ IsDecideList
    /\ obs.policies = MainPolicies
    /\ obs.decision = Skip("InFlight")
    /\ IsSome(obs.before.tob.last_best)
    /\ TopOfBookTickMovePolicy(obs.before, obs.ctx, obs.wall).st.tob.last_best
          # obs.before.tob.last_best
    /\ sched = obs.before


(***************************************************************************)
(* TopOfBookTickMovePolicy                                                 *)
(***************************************************************************)
\* the call reached the tick-move policy: no policy before it gave a reason
TickMoveInvoked == \E i \in Invoked : obs.policies[i] = "TopOfBookTickMove"

HasBook(ms) == IsSome(ms.best_bid) /\ IsSome(ms.best_ask)

TickMoveSkipped == obs.decision \in {Skip("NoBook"), Skip("NoMeaningfulChange")}

MovedFromReference ==
    LET ref == Get(obs.before.tob.last_best)
        ms == obs.ctx.market_state
    IN  \/ Abs(Get(ms.best_bid) - ref[1]) >= tob_min_ticks * price_tick
        \/ Abs(Get(ms.best_ask) - ref[2]) >= tob_min_ticks * price_tick

MaxStaleElapsed ==
    /\ IsSome(obs.before.tob.last_eval)
    /\ obs.ctx.now - Get(obs.before.tob.last_eval) >= tob_max_stale

\* C35: the tick-move policy skips with NoBook whenever the best bid or the
\* best ask is absent; with both present it does not skip on its first call,
\* nor when either price is at least min_ticks * price_tick away from the
\* reference, and it does not answer NoMeaningfulChange once max_stale has
\* passed since the last evaluation.
C35_TickMovePolicy ==
    IsDecideList /\ TickMoveInvoked
    => /\ ~HasBook(obs.ctx.market_state) => obs.decision = Skip("NoBook")
       /\ (/\ HasBook(obs.ctx.market_state)
           /\ obs.before.tob.last_best = None
           /\ obs.before.tob.last_eval = None) => ~TickMoveSkipped
       /\ (/\ HasBook(obs.ctx.market_state)
           /\ IsSome(obs.before.tob.last_best)
           /\ MovedFromReference) => ~TickMoveSkipped
       /\ (HasBook(obs.ctx.market_state) /\ MaxStaleElapsed)
            => obs.decision # Skip("NoMeaningfulChange")

\* the book stands at the reference and the last evaluation is exactly
\* max_stale old: the policy lets the call through and restarts the interval
C35_Witness ==
    /\ IsDecideList /\ TickMoveInvoked
    /\ HasBook(obs.ctx.market_state)
    /\ IsSome(obs.before.tob.last_best)
    /\ ~MovedFromReference
    /\ IsSome(obs.before.tob.last_eval)
    /\ obs.ctx.now - Get(obs.before.tob.last_eval) = tob_max_stale
    /\ ~TickMoveSkipped
    /\ sched.tob.last_eval = Some(obs.ctx.now)


(***************************************************************************)
(* actions_for_target and the sides in flight                              *)
(***************************************************************************)
\* C36: actions_for_target on a side that is Placing or Cancelling, with a
\* desired quote or none, emits no action and leaves the side's state and
\* last_update as they were; and a pass of the event loop reaches
\* actions_for_target only when no side is Placing or Cancelling.
C36_InflightSideWaits ==
    /\ (IsTargetCall /\ side_has_inflight_actions(obs.before))
          => /\ obs.actions = <<>>
             /\ om.bid_side = obs.before
    /\ (obs.op = "tick" /\ obs.result = "approved") => ~obs.inflight

\* a Cancelling side asked for a new quote some time after the cancel
C36_Witness ==
    /\ IsTargetCall
    /\ obs.before.state.kind = "Cancelling"
    /\ IsSome(obs.target)
    /\ Get(obs.target) # obs.before.state.resting
    /\ obs.now > Get(obs.before.last_update)
    /\ om.bid_side = obs.before


(***************************************************************************)
(* Reports for the other side and reports without a side                   *)
(***************************************************************************)
IsReportCall == obs.op = "on_report"

\* C37: a report whose side is not the side of a manager, and every
\* CancelFailed, CancelledAll and VenueError report, leaves that manager's
\* state and last_update as they were, so OrderManager::on_report changes at
\* most the side the report names.
C37_OnlyTheNamedSideChanges ==
    IsReportCall
    => /\ obs.report.side # "Buy" => om.bid_side = obs.manager.bid_side
       /\ obs.report.side # "Sell" => om.ask_side = obs.manager.ask_side
       /\ obs.report.type \in {"CancelFailed", "CancelledAll", "VenueError"}
             => om = obs.manager

\* a Cancelled report of the ask side carrying the id of the order that is
\* Live on the bid side: it clears the ask side only
C37_Witness ==
    /\ IsReportCall
    /\ obs.report.side = "Sell"
    /\ obs.report.type = "Cancelled"
    /\ obs.manager.bid_side.state.kind = "Live"
    /\ obs.manager.bid_side.state.order_id = obs.report.order_id
    /\ obs.manager.ask_side.state.kind # "NoOrder"
    /\ om.ask_side.state = NoOrder
    /\ om.bid_side = obs.manager.bid_side


(***************************************************************************)
(* The quantity a side holds                                               *)
(***************************************************************************)
HeldQuantityPositive(m) ==
    m.state.kind \in {"Live", "Cancelling"} => m.state.resting.quantity > 0

\* C38: the quote held by a Live or Cancelling side has a quantity above 0;
\* a partial fill of at least the resting quantity does not leave the side
\* Live with nothing resting.
C38_HeldQuantityPositive ==
    HeldQuantityPositive(om.bid_side) /\ HeldQuantityPositive(om.ask_side)


(***************************************************************************)
(* last_update and the state of a side                                     *)
(***************************************************************************)
LastUpdateFollowsState(m) ==
    /\ m.state.kind = "NoOrder" => m.last_update = None
    /\ m.state.kind = "Live" => IsSome(m.last_update)

\* C39: after any reports and actions_for_target calls a side in NoOrder has
\* no last_update and a Live side has one, so that the min_lifetime guard of
\* is_stale applies to every Live order.
C39_LastUpdateFollowsState ==
    LastUpdateFollowsState(om.bid_side) /\ LastUpdateFollowsState(om.ask_side)

\* an Accepted report for a side that a Placed report had put into Placing
\* without a last_update
C39_Witness ==
    /\ IsReportCall
    /\ obs.report.type = "Accepted"
    /\ obs.before.state.kind = "Placing"
    /\ obs.before.last_update = None
    /\ SideOf(om, obs.report.side).state.kind = "Live"
    /\ IsSome(SideOf(om, obs.report.side).last_update)


(***************************************************************************)
(* SignalState::update                                                     *)
(***************************************************************************)
IsSignalCall == obs.op = "signal_update"

\* C40: update leaves every field of SignalState as it was when the market
\* has no mid price, when now is less than min_update_interval after the
\* last applied update, and when now lies before the last applied update;
\* the first applied update sets both EMAs to the mid price.
C40_SignalUpdateNoOps ==
    IsSignalCall
    => /\ ~IsSome(obs.mid) => signal = obs.before
       /\ (/\ IsSome(obs.before.last_update)
           /\ obs.now >= Get(obs.before.last_update)
           /\ obs.now - Get(obs.before.last_update) < signal_min_update_interval)
             => signal = obs.before
       /\ (IsSome(obs.before.last_update) /\ obs.now < Get(obs.before.last_update))
             => signal = obs.before
       /\ (~IsSome(obs.before.last_update) /\ IsSome(obs.mid))
             => /\ signal.ema_mid.value = obs.mid
                /\ signal.ema_mid_slow.value = obs.mid
                /\ ema_mid(signal) = obs.mid
                /\ ema_mid_slow(signal) = obs.mid
                /\ signal.last_update = Some(obs.now)

\* an update with a new mid price at an instant two intervals before the
\* last applied update
C40_Witness ==
    /\ IsSignalCall
    /\ IsSome(obs.mid)
    /\ IsSome(obs.before.last_update)
    /\ obs.mid # obs.before.last_mid
    /\ Get(obs.before.last_update) - obs.now >= 2 * signal_min_update_interval
    /\ signal = obs.before

====
